---------------------------- MODULE Spec2Model ----------------------------
(***************************************************************************)
(* Model of src/lib/index.js: the MongoDB-filter to MySQL translator, the  *)
(* SubQuery wrapper, the operator plugin registry and the statement        *)
(* builders.                                                               *)
(*                                                                         *)
(* JavaScript values are tagged records, objects are sequences of          *)
(* key/value entries in insertion order (the order `for ... in` visits),   *)
(* SQL text is a sequence of tokens.  A thrown exception is the field err  *)
(* of the translation state; every caller tests it and stops.              *)
(***************************************************************************)
EXTENDS Integers, Sequences, FiniteSets, TLC

VARIABLES
    query,            \* the caller's filter object: handed to the translator or to query()
    OperatorPlugins,  \* the process-wide plugin registry (array of plugins)
    sb,               \* the MongoQueryBuilder wrapped by the SubQuery
    cachedSQL,        \* SubQuery.cachedSQL: <<>> is null, <<text>> is set
    qb,               \* a MongoQueryBuilder
    ab,               \* a MongoAggregationBuilder
    ub,               \* a MongoUpdateBuilder
    db,               \* a MongoDeleteBuilder
    ib,               \* a MongoInsertBuilder
    built,            \* which builder class the caller constructed
    queries,          \* history: the arguments of the query() calls, per builder
    ret               \* what the last call returned or threw

vars == <<query, OperatorPlugins, sb, cachedSQL, qb, ab, ub, db, ib, built, queries, ret>>

-----------------------------------------------------------------------------
(* Bounds of the explored inputs *)

MaxDepth == 2        \* nesting of logical operators in a drawn filter tree
MaxKids == 2         \* children of one logical operator
MaxArr == 2          \* elements of an operand array
MaxQueryCalls == 2   \* query() calls on one builder
MaxCount == 1        \* the counts given to limit() and skip()
MaxStages == 3       \* stages pushed on a pipeline
MaxJoins == 2        \* JOIN fragments accumulated in joinClause
MaxPlugins == 2      \* registered plugins

-----------------------------------------------------------------------------
(* JavaScript values *)

None == <<>>
Some(x) == <<x>>

Num(n) == [t |-> "lit", v |-> n]
Null == [t |-> "null"]
Arr(es) == [t |-> "arr", elems |-> es]
Obj(ents) == [t |-> "obj", ents |-> ents]
SubQ == [t |-> "sub"]
\* the string "$name" and any other string
Ref(name) == [t |-> "ref", name |-> name]
Str(s) == [t |-> "string", s |-> s]
\* the string JSON.stringify(v) returns
Json(v) == [t |-> "str", of |-> v]
KV(k, v) == [key |-> k, val |-> v]

\* if (x): 0 and null are falsy, objects and arrays are truthy
Truthy(v) == ~(v = Null \/ v = Num(0) \/ v = Str(""))

\* for (let key in x) visits the entries of an object; a number or null
\* has no enumerable keys
Entries(x) == IF x.t = "obj" THEN x.ents ELSE <<>>

\* key.startsWith('$')
DollarTokens ==
    {"$and", "$or", "$nor", "$not", "$in", "$nin", "$all", "$exists",
     "$size", "$elemMatch", "$regex", "$like", "$eq", "$ne", "$gt", "$gte",
     "$lt", "$lte", "$near", "$set", "$inc", "$mul", "$unset", "$push"}
startsWithDollar(key) == key \in DollarTokens

-----------------------------------------------------------------------------
(* SQL text *)

\* a word of SQL text
W(s) == [s |-> s, n |-> 0, p |-> <<>>]
\* a number interpolated into the text
N(n) == [s |-> "#", n |-> n, p |-> <<>>]
\* a `?` placeholder; p records the value the emitting statement pushes
\* to params for it (history only: Sql erases it)
Ph(v) == [s |-> "?", n |-> 0, p |-> <<v>>]

Sql(text) == [i \in 1..Len(text) |-> [text[i] EXCEPT !.p = <<>>]]
IsPh(tok) == tok.s = "?"
Placeholders(text) == SelectSeq(text, IsPh)
Owners(text) ==
    LET phs == Placeholders(text) IN [i \in 1..Len(phs) |-> phs[i].p[1]]

RECURSIVE Join(_, _)
\* parts.join(sep)
Join(parts, sep) ==
    IF parts = <<>> THEN <<>>
    ELSE IF Len(parts) = 1 THEN parts[1]
    ELSE parts[1] \o sep \o Join(Tail(parts), sep)

AND == <<W("AND")>>
OR == <<W("OR")>>
COMMA == <<W(",")>>
TRUE_SQL == <<W("1=1")>>
FALSE_SQL == <<W("1=0")>>
Paren(text) == <<W("(")>> \o text \o <<W(")")>>

IsTrueSql(c) == c = TRUE_SQL
NonEmptyText(c) == c # <<>>
NotTrivial(c) == c # <<>> /\ c # TRUE_SQL

-----------------------------------------------------------------------------
(* Errors *)

\* st is the state a translation threads through its calls:
\* params (the array being appended to), cachedSQL (of the SubQuery),
\* err (<<>> or <<the exception in flight>>)
NewSt(cache) == [params |-> <<>>, cachedSQL |-> cache, err |-> None]
Failed(st) == st.err # None
Push(st, v) == [st EXCEPT !.params = Append(@, v)]
\* a plausible slip: params.push(values) without the spread
PushAll_unspread(st, vs) == [st EXCEPT !.params = Append(@, Arr(vs))]
\* params.push(...vs)
PushAll(st, vs) == [st EXCEPT !.params = @ \o vs]

Throw(st, name, message) ==
    [st EXCEPT !.err = Some([name |-> name, message |-> message])]

QueryParseError(message, context) ==
    [name |-> "QueryParseError",
     message |-> "[QueryParseError] " \o message \o " | Context: " \o context]

SQLGenerationError(message) ==
    [name |-> "SQLGenerationError",
     message |-> "[SQLGenerationError] " \o message \o " | Context: undefined"]

handleError(st, errMsg, context) ==
    [st EXCEPT !.err =
        Some(SQLGenerationError(errMsg \o " | Context: \"" \o context \o "\""))]

-----------------------------------------------------------------------------
(* Operator table and plugin registry *)

OPERATORS_MYSQL ==
    [op \in {"$eq", "$ne", "$gt", "$gte", "$lt", "$lte", "$in", "$nin",
             "$and", "$or", "$not", "$regex", "$like"} |->
        CASE op = "$eq" -> "="
          [] op = "$ne" -> "<>"
          [] op = "$gt" -> ">"
          [] op = "$gte" -> ">="
          [] op = "$lt" -> "<"
          [] op = "$lte" -> "<="
          [] op = "$in" -> "IN"
          [] op = "$nin" -> "NOT IN"
          [] op = "$and" -> "AND"
          [] op = "$or" -> "OR"
          [] op = "$not" -> "NOT"
          [] op = "$regex" -> "REGEXP"
          [] op = "$like" -> "LIKE"]

OperatorPlugin(operator, handler) == [operator |-> operator, handler |-> handler]

\* plugin.apply: a handler is caller code; handler h here pushes the clause
\* `field <h> ?` and the operand
PluginApply(plugin, field, opValue, conditions, st) ==
    [conditions |-> Append(conditions, <<W(field), W(plugin.handler), Ph(opValue)>>),
     st |-> Push(st, opValue)]

\* for (const plugin of OperatorPlugins) if (plugin.operator === operator)
FirstPluginIndex(operator) ==
    LET hits == {i \in 1..Len(OperatorPlugins) : OperatorPlugins[i].operator = operator}
    IN IF hits = {} THEN 0 ELSE CHOOSE i \in hits : \A j \in hits : i <= j

-----------------------------------------------------------------------------
(* Join and projection helpers of the Select builder *)

\* a projected field `alias.col` is [alias |-> "alias", col |-> "col"];
\* a field without a dot has alias ""
Col(alias, col) == [alias |-> alias, col |-> col]
ColText(c) == IF c.alias = "" THEN <<W(c.col)>> ELSE <<W(c.alias), W("."), W(c.col)>>

\* join.alias || join.tableName, for every join: the aliases that are mapped
prepareJoinMappings(joinConfigs) ==
    {IF joinConfigs[i].alias # "" THEN joinConfigs[i].alias ELSE joinConfigs[i].tableName :
        i \in 1..Len(joinConfigs)}

parseProjectStageWithJoinsOptimized(projectFields, joinMappings, mainTableName) ==
    Join([i \in 1..Len(projectFields) |->
            LET key == projectFields[i] IN
            IF key.alias # "" /\ key.alias \in joinMappings
            THEN <<W(key.alias), W("."), W(key.col), W("AS"), W(key.alias), W("_"), W(key.col)>>
            ELSE <<W(mainTableName), W(".")>> \o ColText(key) \o
                 <<W("AS"), W(mainTableName), W("_")>> \o ColText(key)],
         COMMA)

generateJoinClause(joinConfigs) ==
    Join([i \in 1..Len(joinConfigs) |->
            LET join == joinConfigs[i] IN
            <<W(join.joinType), W(join.tableName)>> \o
            (IF join.alias # "" THEN <<W("AS"), W(join.alias)>> ELSE <<>>) \o
            <<W("ON"), W(join.on)>>],
         <<>>)

-----------------------------------------------------------------------------
(* The filter translator *)

RECURSIVE parseMongoQuery(_, _, _)
RECURSIVE MongoQueryBuilder_toSQL(_, _)

\* this.cachedSQL = `(${sql})` of the compilation `result`
SubQuery_cache(result) ==
    IF Failed(result.st) THEN [text |-> <<>>, st |-> result.st]
    ELSE [text |-> Paren(result.sql),
          st |-> [result.st EXCEPT !.cachedSQL = Some(Paren(result.sql))]]

\* a plausible slip: toSQL() without the test of cachedSQL
SubQuery_toSQL_uncached(st) == SubQuery_cache(MongoQueryBuilder_toSQL(sb, st))

\* SubQuery.toSQL(): compiles the wrapped builder only while cachedSQL is
\* unset.  Returns [text, st].
SubQuery_toSQL(st) ==
    IF st.cachedSQL = None
    THEN SubQuery_cache(MongoQueryBuilder_toSQL(sb, st))
    ELSE [text |-> st.cachedSQL[1], st |-> st]

\* the params of the compilation `result`
SubQuery_params(result) == [params |-> result.params, st |-> result.st]

\* SubQuery.getParams(): compiles the wrapped builder again, every time.
\* Returns [params, st].
SubQuery_getParams(st) == SubQuery_params(MongoQueryBuilder_toSQL(sb, st))

\* conditions.push(`${key} IN ${subResult}`); params.push(...value.getParams())
\* where got is what value.getParams() returned
EmbedParams(field, conditions, text, got) ==
    IF Failed(got.st) THEN [conditions |-> conditions, st |-> got.st]
    ELSE [conditions |-> Append(conditions, <<W(field), W("IN")>> \o text),
          st |-> PushAll(got.st, got.params)]

\* const subResult = value.toSQL(), then the push; sub is what toSQL returned
EmbedText(field, conditions, sub) ==
    IF Failed(sub.st) THEN [conditions |-> conditions, st |-> sub.st]
    ELSE EmbedParams(field, conditions, sub.text, SubQuery_getParams(sub.st))

\* a SubQuery as field value or operand: `field IN (subquery)`
EmbedSubQuery(field, conditions, st) ==
    EmbedText(field, conditions, SubQuery_toSQL(st))

RECURSIVE MapMixed(_, _, _, _)
\* return val.toSQL(), appended to the mapped parts
MixedText(values, i, parts, sub) ==
    MapMixed(values, i + 1, Append(parts, sub.text), sub.st)

\* params.push(...val.getParams()); got is what getParams returned
MixedParams(values, i, parts, got) ==
    IF Failed(got.st) THEN [parts |-> parts, st |-> got.st]
    ELSE MixedText(values, i, parts, SubQuery_toSQL(PushAll(got.st, got.params)))

\* values.map(v => v instanceof SubQuery ? (push its params, its SQL)
\*                                        : (push v, "?"))
MapMixed(values, i, parts, st) ==
    IF i > Len(values) \/ Failed(st) THEN [parts |-> parts, st |-> st]
    ELSE IF values[i].t = "sub"
    THEN MixedParams(values, i, parts, SubQuery_getParams(st))
    ELSE MapMixed(values, i + 1, Append(parts, <<Ph(values[i])>>), Push(st, values[i]))

\* a plausible slip: the empty operand only skips the field
EmptyArrayPolicy_skip(operator, conditions) == conditions

\* the clause pushed for an operand that is not an array or is empty
EmptyArrayPolicy(operator, conditions) ==
    IF operator = "$in" THEN Append(conditions, FALSE_SQL)
    ELSE IF operator = "$nin" THEN Append(conditions, TRUE_SQL)
    ELSE conditions

\* `${field} IN (${placeholders})` of an array that holds a SubQuery
MixedClause(field, conditions, m) ==
    IF Failed(m.st) THEN [conditions |-> conditions, st |-> m.st]
    ELSE [conditions |->
            Append(conditions, <<W(field), W("IN")>> \o Paren(Join(m.parts, COMMA))),
          st |-> m.st]

handleArrayOperators(field, values, operator, conditions, st, context) ==
    IF values.t # "arr" \/ (values.t = "arr" /\ values.elems = <<>>)
    THEN [conditions |-> EmptyArrayPolicy(operator, conditions), st |-> st]
    ELSE LET vs == values.elems IN
    IF \E i \in 1..Len(vs) : vs[i].t = "sub"
    THEN MixedClause(field, conditions, MapMixed(vs, 1, <<>>, st))
    ELSE IF operator = "$in"
    THEN [conditions |->
            Append(conditions, <<W(field), W("IN")>> \o
                Paren(Join([i \in 1..Len(vs) |-> <<Ph(vs[i])>>], COMMA))),
          st |-> PushAll(st, vs)]
    ELSE IF operator = "$nin"
    THEN [conditions |->
            Append(conditions, <<W(field), W("NOT IN")>> \o
                Paren(Join([i \in 1..Len(vs) |-> <<Ph(vs[i])>>], COMMA))),
          st |-> PushAll(st, vs)]
    ELSE IF operator = "$all"
    THEN [conditions |->
            Append(conditions,
                Paren(Join([i \in 1..Len(vs) |->
                              <<W("JSON_CONTAINS"), W("("), W(field), W(","),
                                Ph(Json(vs[i])), W(")")>>], AND))),
          st |-> PushAll(st, [i \in 1..Len(vs) |-> Json(vs[i])])]
    ELSE [conditions |-> conditions, st |-> st]

handleOperator(field, opValue, operator, conditions, st, context) ==
    LET pi == FirstPluginIndex(operator) IN
    IF pi # 0
    THEN PluginApply(OperatorPlugins[pi], field, opValue, conditions, st)
    ELSE IF opValue.t = "sub"
    THEN EmbedSubQuery(field, conditions, st)
    ELSE IF operator = "$exists"
    THEN [conditions |->
            Append(conditions,
                <<W(field), W(IF Truthy(opValue) THEN "IS NOT NULL" ELSE "IS NULL")>>),
          st |-> st]
    ELSE IF operator = "$size"
    THEN [conditions |->
            Append(conditions,
                <<W("JSON_LENGTH"), W("("), W(field), W(")"), W("="), Ph(opValue)>>),
          st |-> Push(st, opValue)]
    ELSE IF operator = "$elemMatch"
    THEN [conditions |->
            Append(conditions,
                <<W("JSON_CONTAINS"), W("("), W(field), W(","), Ph(Json(opValue)), W(")")>>),
          st |-> Push(st, Json(opValue))]
    ELSE IF operator = "$regex"
    THEN [conditions |-> Append(conditions, <<W(field), W("REGEXP"), Ph(opValue)>>),
          st |-> Push(st, opValue)]
    ELSE IF operator = "$like"
    THEN [conditions |-> Append(conditions, <<W(field), W("LIKE"), Ph(opValue)>>),
          st |-> Push(st, opValue)]
    ELSE IF operator \notin DOMAIN OPERATORS_MYSQL
    THEN [conditions |-> conditions,
          st |-> handleError(st, "Unsupported operator \"" \o operator \o
                                 "\" for field \"" \o field \o "\"", context)]
    ELSE [conditions |->
            Append(conditions, <<W(field), W(OPERATORS_MYSQL[operator]), Ph(opValue)>>),
          st |-> Push(st, opValue)]

RECURSIVE MapParse(_, _, _, _, _, _)
\* the text one child returned joins the mapped texts
MapParseNext(children, i, conds, r, context, tag) ==
    MapParse(children, i + 1, Append(conds, r.text), r.st, context, tag)

\* value.map((subQuery, idx) => parseMongoQuery(subQuery, params,
\*                                 `${context}->${tag}[${idx}]`))
MapParse(children, i, conds, st, context, tag) ==
    IF i > Len(children) \/ Failed(st) THEN [conds |-> conds, st |-> st]
    ELSE MapParseNext(children, i, conds,
            parseMongoQuery(children[i], st,
                context \o "->" \o tag \o "[" \o ToString(i - 1) \o "]"),
            context, tag)

\* value.map(...) on something that is not an array
NotAnArray(st) == Throw(st, "TypeError", "value.map is not a function")

\* conditions.push(...) of handleLogicalOperators; m holds the mapped children
LogicalClause(operator, conditions, m) ==
    LET subConds == [i \in 1..Len(m.conds) |-> Paren(m.conds[i])] IN
    IF Failed(m.st) THEN [conditions |-> conditions, st |-> m.st]
    ELSE IF operator = "$nor"
    THEN [conditions |-> Append(conditions, <<W("NOT")>> \o Paren(Join(subConds, OR))),
          st |-> m.st]
    ELSE [conditions |->
            Append(conditions,
                Paren(Join(subConds,
                    <<W(IF operator \in DOMAIN OPERATORS_MYSQL
                        THEN OPERATORS_MYSQL[operator] ELSE operator)>>))),
          st |-> m.st]

handleLogicalOperators(operator, value, conditions, st, context) ==
    IF value.t # "arr" \/ (value.t = "arr" /\ value.elems = <<>>)
    THEN [conditions |-> Append(conditions, IF operator = "$and" THEN TRUE_SQL ELSE FALSE_SQL),
          st |-> st]
    ELSE LogicalClause(operator, conditions,
            MapParse(value.elems, 1, <<>>, st, context, operator))

\* the body of `for (let op in value)`: one entry of a field's operator map
ParseOp(key, op, operand, fieldConds, st, context) ==
    IF startsWithDollar(op)
    THEN IF op = "$in" /\ operand.t = "sub"
         THEN EmbedSubQuery(key, fieldConds, st)
         ELSE IF op \in {"$in", "$nin", "$all"}
         THEN handleArrayOperators(key, operand, op, fieldConds, st, context)
         ELSE handleOperator(key, operand, op, fieldConds, st, context)
    ELSE [conditions |-> Append(fieldConds, <<W(key), W("="), Ph(operand)>>),
          st |-> Push(st, operand)]

RECURSIVE ParseOps(_, _, _, _, _, _)
\* the next turn of the loop, after the turn that left `step`
ParseOpsNext(key, ops, i, step, context) ==
    ParseOps(key, ops, i + 1, step.conditions, step.st, context)

\* for (let op in value) { ... } over the operator map of one field
ParseOps(key, ops, i, fieldConds, st, context) ==
    IF i > Len(ops) \/ Failed(st) THEN [conditions |-> fieldConds, st |-> st]
    ELSE ParseOpsNext(key, ops, i,
            ParseOp(key, ops[i].key, ops[i].val, fieldConds, st, context), context)

\* a plausible slip: the filter of $and, `cond => cond`, for all three keys
LogicalKey_keepTrivial(key, conditions, m) ==
    LET kept == SelectSeq(m.conds, NonEmptyText)
    IN IF Failed(m.st) THEN [conditions |-> conditions, st |-> m.st]
       ELSE [conditions |->
               IF key = "$or"
               THEN Append(conditions,
                       IF kept # <<>> THEN Paren(Join(kept, OR)) ELSE FALSE_SQL)
               ELSE IF key = "$nor"
               THEN Append(conditions,
                       IF kept # <<>> THEN <<W("NOT")>> \o Paren(Join(kept, OR))
                       ELSE TRUE_SQL)
               ELSE IF kept # <<>> THEN Append(conditions, Join(kept, AND))
               ELSE conditions,
             st |-> m.st]

\* the clause of a top-level $or / $nor / $and; m holds the mapped children
LogicalKey(key, conditions, m) ==
    LET kept == IF key = "$and" THEN SelectSeq(m.conds, NonEmptyText)
                ELSE SelectSeq(m.conds, NotTrivial)
    IN IF Failed(m.st) THEN [conditions |-> conditions, st |-> m.st]
       ELSE [conditions |->
               IF key = "$or"
               THEN Append(conditions,
                       IF kept # <<>> THEN Paren(Join(kept, OR)) ELSE FALSE_SQL)
               ELSE IF key = "$nor"
               THEN Append(conditions,
                       IF kept # <<>> THEN <<W("NOT")>> \o Paren(Join(kept, OR))
                       ELSE TRUE_SQL)
               ELSE IF kept # <<>> THEN Append(conditions, Join(kept, AND))
               ELSE conditions,
             st |-> m.st]

\* the clause of one field's operator map; f holds the field's conditions
FieldClause(conditions, f) ==
    [conditions |->
        IF Len(f.conditions) > 1 THEN Append(conditions, Paren(Join(f.conditions, AND)))
        ELSE IF Len(f.conditions) = 1 THEN Append(conditions, f.conditions[1])
        ELSE conditions,
     st |-> f.st]

\* the body of `for (let key in query)`, before the catch
ParseKey(key, value, conditions, st, context) ==
    IF startsWithDollar(key)
    THEN IF key \in {"$or", "$nor", "$and"}
         THEN IF value.t # "arr"
              THEN [conditions |-> conditions, st |-> NotAnArray(st)]
              ELSE LogicalKey(key, conditions,
                      MapParse(value.elems, 1, <<>>, st, context,
                          IF key = "$or" THEN "OR"
                          ELSE IF key = "$nor" THEN "NOR" ELSE "AND"))
         ELSE handleLogicalOperators(key, value, conditions, st, context)
    ELSE IF value.t = "sub"
    THEN EmbedSubQuery(key, conditions, st)
    ELSE IF value.t = "obj"
    THEN FieldClause(conditions, ParseOps(key, value.ents, 1, <<>>, st, context))
    ELSE [conditions |-> Append(conditions, <<W(key), W("="), Ph(value)>>),
          st |-> Push(st, value)]

RECURSIVE ParseKeys(_, _, _, _, _)
\* catch (e) { throw new QueryParseError(e.message, context) }, or the next
\* turn of the loop, after the turn that left `step`
ParseKeysNext(ents, i, conditions, step, context) ==
    IF Failed(step.st)
    THEN [conditions |-> conditions,
          st |-> [step.st EXCEPT !.err =
                     Some(QueryParseError(step.st.err[1].message, context))]]
    ELSE ParseKeys(ents, i + 1, step.conditions, step.st, context)

\* for (let key in query) { try { ... } catch (e) { ... } }
ParseKeys(ents, i, conditions, st, context) ==
    IF i > Len(ents) THEN [conditions |-> conditions, st |-> st]
    ELSE ParseKeysNext(ents, i, conditions,
            ParseKey(ents[i].key, ents[i].val, conditions, st, context), context)

\* conditions.length ? conditions.join(" AND ") : "1=1"
JoinConditions(r) ==
    IF Failed(r.st) THEN [text |-> <<>>, st |-> r.st]
    ELSE [text |-> IF r.conditions # <<>> THEN Join(r.conditions, AND) ELSE TRUE_SQL,
          st |-> r.st]

\* Returns [text, st]; st.params is params after the call, st.err the
\* exception when the call throws
parseMongoQuery(q, st, context) ==
    JoinConditions(ParseKeys(Entries(q), 1, <<>>, st, context))

-----------------------------------------------------------------------------
(* MongoQueryBuilder, the Select builder *)

MAX_LIMIT == "18446744073709551615"

NewQueryBuilder(tableName) ==
    [tableName |-> tableName, filter |-> Obj(<<>>), projection |-> None,
     joinConfigs |-> <<>>, sortClause |-> <<>>, limitValue |-> None,
     offsetValue |-> None]

\* the paging tail shared by MongoQueryBuilder.toSQL lines 976-983
SelectPaging(limitValue, offsetValue) ==
    IF limitValue # None
    THEN <<W("LIMIT"), N(limitValue[1])>> \o
         (IF offsetValue # None THEN <<W("OFFSET"), N(offsetValue[1])>> ELSE <<>>)
    ELSE IF offsetValue # None
    THEN <<W("LIMIT"), W(MAX_LIMIT), W("OFFSET"), N(offsetValue[1])>>
    ELSE <<>>

\* the statement assembled around the WHERE text w
SelectStatement(b, st, w) ==
    LET selectClause ==
            IF b.projection # None
            THEN IF b.joinConfigs # <<>>
                 THEN parseProjectStageWithJoinsOptimized(
                          b.projection[1], prepareJoinMappings(b.joinConfigs), b.tableName)
                 ELSE Join([i \in 1..Len(b.projection[1]) |-> ColText(b.projection[1][i])],
                           COMMA)
            ELSE <<W("*")>>
    IN IF Failed(w.st)
       THEN [sql |-> <<>>, params |-> <<>>, st |-> [w.st EXCEPT !.params = st.params]]
       ELSE [sql |-> <<W("SELECT")>> \o selectClause \o <<W("FROM"), W(b.tableName)>> \o
                     (IF b.joinConfigs # <<>> THEN generateJoinClause(b.joinConfigs)
                      ELSE <<>>) \o
                     (IF w.text # <<>> THEN <<W("WHERE")>> \o w.text ELSE <<>>) \o
                     (IF b.sortClause # <<>> THEN <<W("ORDER BY")>> \o b.sortClause
                      ELSE <<>>) \o
                     SelectPaging(b.limitValue, b.offsetValue),
             params |-> w.st.params,
             st |-> [w.st EXCEPT !.params = st.params]]

\* Returns [sql, params, st]; st keeps the caller's params
MongoQueryBuilder_toSQL(b, st) ==
    SelectStatement(b, st,
        parseMongoQuery(b.filter, [st EXCEPT !.params = <<>>], "SELECT"))

\* query(queryObj) of the Select, Update and Delete builders
MergeQuery(filter, queryObj) ==
    IF Entries(filter) = <<>> THEN queryObj
    ELSE LET hasAnd == \E i \in 1..Len(filter.ents) :
                          filter.ents[i].key = "$and" /\ Truthy(filter.ents[i].val)
             base == IF hasAnd THEN filter ELSE Obj(<<KV("$and", Arr(<<filter>>))>>)
         IN Obj([i \in 1..Len(base.ents) |->
                   IF base.ents[i].key = "$and"
                   THEN KV("$and", Arr(Append(base.ents[i].val.elems, queryObj)))
                   ELSE base.ents[i]])

-----------------------------------------------------------------------------
(* Object helpers *)

HasKey(obj, k) == \E i \in 1..Len(Entries(obj)) : obj.ents[i].key = k
\* obj[k] of a key that is present
Get(obj, k) ==
    obj.ents[CHOOSE i \in 1..Len(obj.ents) : obj.ents[i].key = k].val
Keys(obj) == [i \in 1..Len(Entries(obj)) |-> obj.ents[i].key]

\* `${v}`: a value interpolated into SQL text
Interp(v) ==
    IF v.t = "lit" THEN <<N(v.v)>>
    ELSE IF v.t = "ref" THEN <<W("$"), W(v.name)>>
    ELSE IF v.t = "string" THEN <<W(v.s)>>
    ELSE IF v.t = "null" THEN <<W("null")>>
    ELSE <<W("[object]")>>

\* typeof v === "string" && v.startsWith("$") ? v.substring(1) : v
StripDollar(v) == IF v.t = "ref" THEN <<W(v.name)>> ELSE Interp(v)

-----------------------------------------------------------------------------
(* Aggregation: parseGroupStage and MongoAggregationBuilder *)

AGG_FUNCS == [op \in {"$sum", "$avg", "$min", "$max"} |->
                 CASE op = "$sum" -> "SUM"
                   [] op = "$avg" -> "AVG"
                   [] op = "$min" -> "MIN"
                   [] op = "$max" -> "MAX"]

\* a plausible slip: a switch without the default branch
GroupOutputs_noDefault(ents, i, selectParts, st) ==
    [selectParts |->
        selectParts \o
        [k \in 1..Len(SelectSeq(ents, LAMBDA e : e.key # "_id")) |->
            <<W("("), W(")"), W("AS"), W(SelectSeq(ents, LAMBDA e : e.key # "_id")[k].key)>>],
     st |-> st]

RECURSIVE GroupOutputs(_, _, _, _)
\* for (let key in groupObj) { if (key === "_id") continue; ... }
GroupOutputs(ents, i, selectParts, st) ==
    IF i > Len(ents) \/ Failed(st) THEN [selectParts |-> selectParts, st |-> st]
    ELSE IF ents[i].key = "_id" THEN GroupOutputs(ents, i + 1, selectParts, st)
    ELSE LET operatorObj == ents[i].val
             ks == Keys(operatorObj)
             operator == IF ks = <<>> THEN "undefined" ELSE ks[1]
         IN IF operator \notin DOMAIN AGG_FUNCS
            THEN [selectParts |-> selectParts,
                  st |-> handleError(st, "unsupported aggregate operator: " \o operator,
                                     "parseGroupStage")]
            ELSE GroupOutputs(ents, i + 1,
                    Append(selectParts,
                        <<W(AGG_FUNCS[operator]), W("(")>> \o
                        StripDollar(operatorObj.ents[1].val) \o
                        <<W(")"), W("AS"), W(ents[i].key)>>),
                    st)

\* return { selectClause, groupByClause, havingClause }
GroupClauses(groupBy, outs) ==
    [selectClause |-> Join(outs.selectParts, COMMA),
     groupByClause |-> Join(groupBy, COMMA),
     havingClause |-> <<>>,
     st |-> outs.st]

\* Returns [selectClause, groupByClause, havingClause, st]
parseGroupStage(groupObj, st) ==
    LET id == IF HasKey(groupObj, "_id") THEN Get(groupObj, "_id") ELSE Null
        idParts ==
            IF ~Truthy(id) THEN [select |-> <<>>, groupBy |-> <<>>]
            ELSE IF id.t = "obj"
            THEN LET fields == Join([i \in 1..Len(id.ents) |-> StripDollar(id.ents[i].val)],
                                    COMMA)
                 IN [select |-> <<fields>>, groupBy |-> <<fields>>]
            ELSE IF id.t = "ref"
            THEN [select |-> <<<<W(id.name), W("AS"), W("_id")>>>>,
                  groupBy |-> <<<<W(id.name)>>>>]
            ELSE [select |-> <<<<W("'")>> \o Interp(id) \o <<W("'"), W("AS"), W("_id")>>>>,
                  groupBy |-> <<<<W("_id")>>>>]
    IN GroupClauses(idParts.groupBy,
                    GroupOutputs(Entries(groupObj), 1, idParts.select, st))

NewAggregationBuilder(tableName) ==
    [tableName |-> tableName, pipeline |-> <<>>, joinClause |-> <<>>]

Stage(op, arg) == [op |-> op, arg |-> arg]

\* for (let key in stage.$sort): a string is visited character by character
\* (keys "0", "1", ...), an object entry by entry
SortKeys(sortObj) ==
    IF sortObj.t = "string"
    THEN [i \in 1..Len(sortObj.s) |-> KV(ToString(i - 1), Str("char"))]
    ELSE Entries(sortObj)

\* a plausible slip: the condition assigned instead of pushed
MatchStage_assign(acc, r) ==
    [acc EXCEPT !.st = r.st,
                !.whereConditions = IF ~Failed(r.st) /\ r.text # <<>> THEN <<r.text>> ELSE @]

\* if (conditionStr) whereConditions.push(conditionStr)
MatchStage(acc, r) ==
    [acc EXCEPT !.st = r.st,
                !.whereConditions =
                   IF ~Failed(r.st) /\ r.text # <<>> THEN Append(@, r.text) ELSE @]

\* selectClause, groupClause, havingClause = the clauses of groupResult
GroupStage(acc, g) ==
    IF Failed(g.st) THEN [acc EXCEPT !.st = g.st]
    ELSE [acc EXCEPT !.selectClause = g.selectClause,
                     !.groupClause = g.groupByClause,
                     !.havingClause = g.havingClause]

\* one turn of `for (let stage of this.pipeline)`; acc holds the locals of
\* toSQL, this.joinClause and the translation state
AggStage(stage, acc, tableName) ==
    IF ~Truthy(stage.arg) THEN acc
    ELSE IF stage.op = "$match"
    THEN MatchStage(acc, parseMongoQuery(stage.arg, acc.st, "$match"))
    ELSE IF stage.op = "$group"
    THEN GroupStage(acc, parseGroupStage(stage.arg, acc.st))
    ELSE IF stage.op = "$project"
    THEN IF stage.arg.t = "arr"
         THEN LET cols == Join([i \in 1..Len(stage.arg.elems) |-> Interp(stage.arg.elems[i])],
                               COMMA)
              IN [acc EXCEPT !.selectClause =
                      IF @ = <<W("*")>> THEN cols ELSE cols \o COMMA \o @]
         ELSE acc
    ELSE IF stage.op = "$sort"
    THEN LET ks == SortKeys(stage.arg) IN
         [acc EXCEPT !.orderClause =
             Join([i \in 1..Len(ks) |->
                     <<W(ks[i].key), W(IF ks[i].val = Num(-1) THEN "DESC" ELSE "ASC")>>],
                  COMMA)]
    ELSE IF stage.op = "$limit" THEN [acc EXCEPT !.limitClause = Interp(stage.arg)]
    ELSE IF stage.op = "$skip" THEN [acc EXCEPT !.offsetClause = Interp(stage.arg)]
    ELSE IF stage.op = "$lookup"
    THEN [acc EXCEPT !.joinClause =
             @ \o <<W("LEFT JOIN"), W(stage.arg.from), W("AS"), W(stage.arg.as), W("ON"),
                    W(tableName), W("."), W(stage.arg.localField), W("="),
                    W(stage.arg.as), W("."), W(stage.arg.foreignField)>>]
    ELSE IF stage.op = "$unwind"
    THEN [acc EXCEPT !.comments =
             Append(@, <<W("/* UNWIND(")>> \o Interp(stage.arg) \o <<W(") */")>>)]
    ELSE acc

RECURSIVE AggFold(_, _, _, _)
AggFold(pipeline, i, acc, tableName) ==
    IF i > Len(pipeline) \/ Failed(acc.st) THEN acc
    ELSE AggFold(pipeline, i + 1, AggStage(pipeline[i], acc, tableName), tableName)

\* a plausible slip: the clauses appended in the order the stages usually
\* come in, ORDER BY before GROUP BY
AggStatement_sortFirst(b, st, acc) ==
    [sql |-> IF Failed(acc.st) THEN <<>>
             ELSE <<W("SELECT")>> \o acc.selectClause \o <<W("FROM"), W(b.tableName)>> \o
                  acc.joinClause \o
                  Join(acc.comments, <<>>) \o
                  (IF acc.whereConditions # <<>>
                   THEN <<W("WHERE")>> \o Join(acc.whereConditions, AND) ELSE <<>>) \o
                  (IF acc.orderClause # <<>> THEN <<W("ORDER BY")>> \o acc.orderClause
                   ELSE <<>>) \o
                  (IF acc.groupClause # <<>> THEN <<W("GROUP BY")>> \o acc.groupClause
                   ELSE <<>>) \o
                  (IF acc.limitClause # <<>>
                   THEN <<W("LIMIT")>> \o acc.limitClause \o
                        (IF acc.offsetClause # <<>> THEN <<W("OFFSET")>> \o acc.offsetClause
                         ELSE <<>>)
                   ELSE IF acc.offsetClause # <<>>
                   THEN <<W("LIMIT"), W(MAX_LIMIT), W("OFFSET")>> \o acc.offsetClause
                   ELSE <<>>),
     params |-> IF Failed(acc.st) THEN <<>> ELSE acc.st.params,
     st |-> [acc.st EXCEPT !.params = st.params],
     joinClause |-> acc.joinClause]

\* the statement assembled from the locals the pipeline loop left in acc
AggStatement(b, st, acc) ==
    LET sql == <<W("SELECT")>> \o acc.selectClause \o <<W("FROM"), W(b.tableName)>> \o
               acc.joinClause \o
               Join(acc.comments, <<>>) \o
               (IF acc.whereConditions # <<>>
                THEN <<W("WHERE")>> \o Join(acc.whereConditions, AND) ELSE <<>>) \o
               (IF acc.groupClause # <<>> THEN <<W("GROUP BY")>> \o acc.groupClause ELSE <<>>) \o
               (IF acc.havingClause # <<>> THEN <<W("HAVING")>> \o acc.havingClause ELSE <<>>) \o
               (IF acc.orderClause # <<>> THEN <<W("ORDER BY")>> \o acc.orderClause ELSE <<>>) \o
               (IF acc.limitClause # <<>>
                THEN <<W("LIMIT")>> \o acc.limitClause \o
                     (IF acc.offsetClause # <<>> THEN <<W("OFFSET")>> \o acc.offsetClause
                      ELSE <<>>)
                ELSE IF acc.offsetClause # <<>>
                THEN <<W("LIMIT"), W(MAX_LIMIT), W("OFFSET")>> \o acc.offsetClause
                ELSE <<>>)
    IN [sql |-> IF Failed(acc.st) THEN <<>> ELSE sql,
        params |-> IF Failed(acc.st) THEN <<>> ELSE acc.st.params,
        st |-> [acc.st EXCEPT !.params = st.params],
        joinClause |-> acc.joinClause]

\* Returns [sql, params, st, joinClause]: toSQL assigns this.joinClause
MongoAggregationBuilder_toSQL(b, st) ==
    AggStatement(b, st,
        AggFold(b.pipeline, 1,
            [st |-> [st EXCEPT !.params = <<>>], whereConditions |-> <<>>,
             groupClause |-> <<>>, havingClause |-> <<>>,
             selectClause |-> <<W("*")>>, orderClause |-> <<>>,
             limitClause |-> <<>>, offsetClause |-> <<>>, comments |-> <<>>,
             joinClause |-> b.joinClause],
            b.tableName))

-----------------------------------------------------------------------------
(* MongoUpdateBuilder *)

NewUpdateBuilder(tableName, idField) ==
    [tableName |-> tableName, idField |-> idField, dataObj |-> None,
     dataArray |-> None, filter |-> Obj(<<>>), singleUpdate |-> FALSE]

\* update(updateData): returns [b, st]
MongoUpdateBuilder_update(b, updateData, st) ==
    IF updateData.t = "arr"
    THEN IF \E i \in 1..Len(updateData.elems) : ~HasKey(updateData.elems[i], b.idField)
         THEN [b |-> b,
               st |-> handleError(st, "every update object must contain the field '" \o
                                      b.idField \o "'", "MongoUpdateBuilder")]
         ELSE [b |-> [b EXCEPT !.dataArray = Some(updateData.elems), !.dataObj = None],
               st |-> st]
    ELSE IF updateData.t = "obj"
    THEN [b |-> [b EXCEPT !.dataObj =
                    IF \A i \in 1..Len(updateData.ents) :
                          ~startsWithDollar(updateData.ents[i].key)
                    THEN Some(Obj(<<KV("$set", updateData)>>))
                    ELSE Some(updateData),
                 !.dataArray = None],
          st |-> st]
    ELSE [b |-> b,
          st |-> handleError(st, "update data must be an object or an array",
                             "MongoUpdateBuilder")]

\* a plausible slip: every operator assigns the operand
SetClauses_assign(op, fields) ==
    [i \in 1..Len(fields) |->
        IF op = "$unset" THEN <<W(fields[i].key), W("="), W("NULL")>>
        ELSE <<W(fields[i].key), W("="), Ph(fields[i].val)>>]

\* `f = ?` / `f = f + ?` / `f = f * ?` for every field of one operator
SetClauses(op, fields) ==
    [i \in 1..Len(fields) |->
        LET f == fields[i].key IN
        IF op = "$set" THEN <<W(f), W("="), Ph(fields[i].val)>>
        ELSE IF op = "$inc" THEN <<W(f), W("="), W(f), W("+"), Ph(fields[i].val)>>
        ELSE IF op = "$mul" THEN <<W(f), W("="), W(f), W("*"), Ph(fields[i].val)>>
        ELSE <<W(f), W("="), W("NULL")>>]

RECURSIVE UpdateOps(_, _, _, _)
\* for (let op in updateOps) switch (op) { ... }
UpdateOps(ops, i, setClauses, st) ==
    IF i > Len(ops) \/ Failed(st) THEN [setClauses |-> setClauses, st |-> st]
    ELSE LET op == ops[i].key
             arg == ops[i].val
             fields == Entries(arg)
         IN IF op = "$set"
            THEN IF ~Truthy(arg) \/ fields = <<>>
                 THEN [setClauses |-> setClauses,
                       st |-> handleError(st, "invalid $set update: must not be empty",
                                          "MongoUpdateBuilder.toSQL")]
                 ELSE UpdateOps(ops, i + 1, setClauses \o SetClauses(op, fields),
                                PushAll(st, [j \in 1..Len(fields) |-> fields[j].val]))
            ELSE IF op \in {"$inc", "$mul"}
            THEN UpdateOps(ops, i + 1, setClauses \o SetClauses(op, fields),
                           PushAll(st, [j \in 1..Len(fields) |-> fields[j].val]))
            ELSE IF op = "$unset"
            THEN IF arg.t \in {"obj", "arr", "null"}
                 THEN UpdateOps(ops, i + 1, setClauses \o SetClauses(op, fields), st)
                 ELSE [setClauses |-> setClauses,
                       st |-> handleError(st, "invalid $unset syntax", "MongoUpdateBuilder")]
            ELSE [setClauses |-> setClauses,
                  st |-> handleError(st, "unsupported update operator: " \o op,
                                     "MongoUpdateBuilder")]

\* a plausible slip: an array of the keys instead of a Set
FirstSeen_array(keys, i, seen) == keys

RECURSIVE FirstSeen(_, _, _)
\* the Set of the non-identity keys of all rows, in insertion order
FirstSeen(keys, i, seen) ==
    IF i > Len(keys) THEN seen
    ELSE FirstSeen(keys, i + 1,
            IF \E j \in 1..Len(seen) : seen[j] = keys[i] THEN seen ELSE Append(seen, keys[i]))

RECURSIVE Flatten(_)
Flatten(seqs) == IF seqs = <<>> THEN <<>> ELSE Head(seqs) \o Flatten(Tail(seqs))

\* the dataArray branch of toSQL around the extra condition `extra`
BulkStatement(b, st, extra) ==
    LET rows == b.dataArray[1]
        allKeys == Flatten([r \in 1..Len(rows) |-> Keys(rows[r])])
        nonId == SelectSeq(allKeys, LAMBDA k : k # b.idField)
        updateColumns == FirstSeen(nonId, 1, <<>>)
        setters(col) == SelectSeq(rows, LAMBDA obj : HasKey(obj, col))
        setClauses ==
            [c \in 1..Len(updateColumns) |->
                LET col == updateColumns[c]
                    objs == setters(col)
                IN <<W(col), W("="), W("CASE"), W(b.idField)>> \o
                   Join([r \in 1..Len(objs) |->
                           <<W("WHEN"), Ph(Get(objs[r], b.idField)),
                             W("THEN"), Ph(Get(objs[r], col))>>], <<>>) \o
                   <<W("ELSE"), W(col), W("END")>>]
        caseParams ==
            Flatten([c \in 1..Len(updateColumns) |->
                LET objs == setters(updateColumns[c]) IN
                Flatten([r \in 1..Len(objs) |->
                    <<Get(objs[r], b.idField), Get(objs[r], updateColumns[c])>>])])
        ids == [r \in 1..Len(rows) |-> Get(rows[r], b.idField)]
        bulkWhereClause ==
            <<W(b.idField), W("IN")>> \o
            Paren(Join([r \in 1..Len(ids) |-> <<Ph(ids[r])>>], COMMA)) \o
            (IF extra.text # TRUE_SQL THEN <<W("AND")>> \o Paren(extra.text) ELSE <<>>)
    IN IF rows = <<>>
       THEN [sql |-> <<>>, params |-> <<>>,
             st |-> handleError(st, "no update objects given", "MongoUpdateBuilder")]
       ELSE IF updateColumns = <<>>
       THEN [sql |-> <<>>, params |-> <<>>,
             st |-> handleError(st, "bulk update: no valid field found",
                                "MongoUpdateBuilder")]
       ELSE IF Failed(extra.st)
       THEN [sql |-> <<>>, params |-> <<>>, st |-> [extra.st EXCEPT !.params = st.params]]
       ELSE [sql |-> <<W("UPDATE"), W(b.tableName), W("SET")>> \o Join(setClauses, COMMA) \o
                     <<W("WHERE")>> \o bulkWhereClause,
             params |-> caseParams \o ids \o extra.st.params,
             st |-> [extra.st EXCEPT !.params = st.params]]

\* the dataArray branch of toSQL: returns [sql, params, st]
BulkUpdate(b, st) ==
    BulkStatement(b, st,
        parseMongoQuery(b.filter, [st EXCEPT !.params = <<>>], "BULK_UPDATE"))

\* sql = `UPDATE ... SET ... WHERE ${whereClause}`
SingleStatement(b, st, setClauses, w) ==
    IF Failed(w.st)
    THEN [sql |-> <<>>, params |-> <<>>, st |-> [w.st EXCEPT !.params = st.params]]
    ELSE [sql |-> <<W("UPDATE"), W(b.tableName), W("SET")>> \o Join(setClauses, COMMA) \o
                  <<W("WHERE")>> \o w.text,
          params |-> w.st.params,
          st |-> [w.st EXCEPT !.params = st.params]]

\* after the operator loop left u: the setClauses check, then the WHERE
SingleWhere(b, st, u) ==
    IF Failed(u.st)
    THEN [sql |-> <<>>, params |-> <<>>, st |-> [u.st EXCEPT !.params = st.params]]
    ELSE IF u.setClauses = <<>>
    THEN [sql |-> <<>>, params |-> <<>>,
          st |-> handleError(st, "no update field given", "MongoUpdateBuilder")]
    ELSE SingleStatement(b, st, u.setClauses, parseMongoQuery(b.filter, u.st, "UPDATE"))

\* the dataObj branch of toSQL: returns [sql, params, st]
SingleUpdate(b, st) ==
    SingleWhere(b, st,
        UpdateOps(Entries(b.dataObj[1]), 1, <<>>, [st EXCEPT !.params = <<>>]))

\* a plausible slip: LIMIT 1 appended inside the single-object branch only
UpdateLimit_objectOnly(b, r) ==
    IF Failed(r.st) THEN r
    ELSE [r EXCEPT !.sql = IF b.singleUpdate /\ b.dataObj # None
                           THEN @ \o <<W("LIMIT"), N(1)>> ELSE @]

\* if (this.singleUpdate) sql += " LIMIT 1"
UpdateLimit(b, r) ==
    IF Failed(r.st) THEN r
    ELSE [r EXCEPT !.sql = IF b.singleUpdate THEN @ \o <<W("LIMIT"), N(1)>> ELSE @]

\* Returns [sql, params, st]
MongoUpdateBuilder_toSQL(b, st) ==
    IF Entries(b.filter) = <<>>
    THEN [sql |-> <<>>, params |-> <<>>,
          st |-> handleError(st, "update needs a query condition", "MongoUpdateBuilder")]
    ELSE UpdateLimit(b,
            IF b.dataObj # None THEN SingleUpdate(b, st)
            ELSE IF b.dataArray # None THEN BulkUpdate(b, st)
            ELSE [sql |-> <<>>, params |-> <<>>,
                  st |-> handleError(st, "no update data given", "MongoUpdateBuilder")])

-----------------------------------------------------------------------------
(* MongoDeleteBuilder *)

NewDeleteBuilder(tableName) ==
    [tableName |-> tableName, filter |-> Obj(<<>>), singleDelete |-> FALSE]

\* sql = `DELETE FROM ${tableName} WHERE ${whereClause}`, then LIMIT 1
DeleteStatement(b, st, w) ==
    IF Failed(w.st)
    THEN [sql |-> <<>>, params |-> <<>>, st |-> [w.st EXCEPT !.params = st.params]]
    ELSE [sql |-> <<W("DELETE FROM"), W(b.tableName), W("WHERE")>> \o w.text \o
                  (IF b.singleDelete THEN <<W("LIMIT"), N(1)>> ELSE <<>>),
          params |-> w.st.params,
          st |-> [w.st EXCEPT !.params = st.params]]

\* a plausible slip: toSQL without the missing-filter guard
MongoDeleteBuilder_toSQL_unguarded(b, st) ==
    DeleteStatement(b, st,
        parseMongoQuery(b.filter, [st EXCEPT !.params = <<>>], "DELETE"))

\* Returns [sql, params, st]
MongoDeleteBuilder_toSQL(b, st) ==
    IF Entries(b.filter) = <<>>
    THEN [sql |-> <<>>, params |-> <<>>,
          st |-> handleError(st, "delete needs a query condition", "MongoDeleteBuilder")]
    ELSE DeleteStatement(b, st,
            parseMongoQuery(b.filter, [st EXCEPT !.params = <<>>], "DELETE"))

-----------------------------------------------------------------------------
(* MongoInsertBuilder *)

NewInsertBuilder(tableName) ==
    [tableName |-> tableName, doc |-> Null, docs |-> Arr(<<>>),
     upsertEnabled |-> FALSE, upsertFields |-> None]

\* doc[key]: undefined when the key is missing
Undefined == [t |-> "undefined"]
Lookup(doc, key) == IF HasKey(doc, key) THEN Get(doc, key) ELSE Undefined

\* ` ON DUPLICATE KEY UPDATE col = VALUES(col), ...`
UpsertClause(b, keys) ==
    IF b.upsertEnabled
    THEN LET updateFields == IF b.upsertFields # None THEN b.upsertFields[1] ELSE keys IN
         <<W("ON DUPLICATE KEY UPDATE")>> \o
         Join([i \in 1..Len(updateFields) |->
                 <<W(updateFields[i]), W("="), W("VALUES"), W("("), W(updateFields[i]), W(")")>>],
              COMMA)
    ELSE <<>>

\* Returns [sql, params, st]
MongoInsertBuilder_toSQL(b, st) ==
    IF Truthy(b.doc)
    THEN LET keys == Keys(b.doc) IN
         [sql |-> <<W("INSERT INTO"), W(b.tableName)>> \o
                  Paren(Join([i \in 1..Len(keys) |-> <<W(keys[i])>>], COMMA)) \o
                  <<W("VALUES")>> \o
                  Paren(Join([i \in 1..Len(keys) |-> <<Ph(Lookup(b.doc, keys[i]))>>], COMMA)) \o
                  UpsertClause(b, keys),
          params |-> [i \in 1..Len(keys) |-> Lookup(b.doc, keys[i])],
          st |-> st]
    ELSE IF b.docs.t # "arr" \/ (b.docs.t = "arr" /\ b.docs.elems = <<>>)
    THEN [sql |-> <<>>, params |-> <<>>,
          st |-> handleError(st, "insertMany() needs at least one document",
                             "MongoInsertBuilder")]
    ELSE LET docs == b.docs.elems
             keys == Keys(docs[1])
             row(d) == Paren(Join([i \in 1..Len(keys) |-> <<Ph(Lookup(docs[d], keys[i]))>>],
                                  COMMA))
         IN [sql |-> <<W("INSERT INTO"), W(b.tableName)>> \o
                     Paren(Join([i \in 1..Len(keys) |-> <<W(keys[i])>>], COMMA)) \o
                     <<W("VALUES")>> \o Join([d \in 1..Len(docs) |-> row(d)], COMMA) \o
                     UpsertClause(b, keys),
             params |-> Flatten([d \in 1..Len(docs) |->
                                   [i \in 1..Len(keys) |-> Lookup(docs[d], keys[i])]]),
             st |-> st]

-----------------------------------------------------------------------------
(* Inputs *)

Lits == {Num(0), Num(1)}
LitArrays == UNION {{Arr(s) : s \in [1..k -> Lits]} : k \in 0..MaxArr}

ArrayOps == {"$in", "$nin", "$all"}
ScalarOps == {"$size", "$regex", "$like", "$eq", "$ne", "$gt", "$gte", "$lt", "$lte", "$not"}
UnknownOp == "$near"

OperandsOf(op) ==
    IF op \in ArrayOps THEN LitArrays \cup {Num(1)}
    ELSE IF op = "$exists" THEN Lits
    ELSE IF op = "$elemMatch" THEN {Obj(<<KV("x", Num(1))>>)}
    ELSE {Num(1)}

SingleOpMaps ==
    {Obj(<<KV(op, v)>>) :
        <<op, v>> \in UNION {{<<o, w>> : w \in OperandsOf(o)} :
                        o \in ArrayOps \cup ScalarOps \cup {"$exists", "$elemMatch", UnknownOp}}}

TwoOpMaps ==
    {Obj(<<KV(o1, Num(0)), KV(o2, v)>>) :
        <<o1, o2, v>> \in {"$gt", "x"} \X {"$lt", "$exists", "y"} \X {Num(1)}}
    \cup {Obj(<<KV(o1, v), KV("$lte", Num(0))>>) :
            <<o1, v>> \in {"$in", "$nin", "$all"} \X {Arr(<<>>), Arr(<<Num(1), Num(0)>>)}}

\* the filters {a: v}: every shape of value a field can have, without SubQuery
LeafValues == Lits \cup {Null} \cup LitArrays \cup SingleOpMaps \cup TwoOpMaps
LeafFilters == {Obj(<<KV("a", v)>>) : v \in LeafValues}

\* the filters nested under logical operators
Atoms ==
    {Obj(<<>>),
     Obj(<<KV("a", Num(1))>>),
     Obj(<<KV("a", Obj(<<KV("$in", Arr(<<>>))>>))>>),
     Obj(<<KV("b", Obj(<<KV("$nin", Arr(<<>>))>>))>>),
     Obj(<<KV("b", Num(0)), KV("a", Obj(<<KV("$gt", Num(1)), KV("$lt", Num(0))>>))>>),
     Obj(<<KV("a", Obj(<<KV(UnknownOp, Num(1))>>))>>)}
Fill == {Obj(<<>>), Obj(<<KV("b", Num(1))>>)}

InsertAt(s, j, x) == SubSeq(s, 1, j - 1) \o <<x>> \o SubSeq(s, j, Len(s))

\* the sequences of at most MaxKids children of an innermost logical
\* operator: one taken from S, the others from Fill
KidSeqs(S) ==
    {<<>>} \cup
    {InsertAt(p[1], p[2], p[3]) :
        p \in UNION {[1..(k - 1) -> Fill] \X (1..k) \X S : k \in 1..MaxKids}}

\* the children of an outer logical operator: the nested filter alone, or
\* before or behind one sibling
Beside(x, place) ==
    IF place = 0 THEN <<x>>
    ELSE IF place = 1 THEN <<Obj(<<KV("b", Num(1))>>), x>>
    ELSE <<x, Obj(<<KV("b", Num(1))>>)>>

\* a logical operator over kids, alone or between two fields
Shapes == {"$and", "$or", "$nor", "$not", "between"}
Logical(shape, kids) ==
    IF shape = "between"
    THEN Obj(<<KV("a", Num(0)), KV("$or", Arr(kids)), KV("b", Num(1))>>)
    ELSE Obj(<<KV(shape, Arr(kids))>>)

RECURSIVE Nested(_)
\* the filters whose logical operators nest exactly d deep
Nested(d) ==
    IF d = 0 THEN Atoms
    ELSE IF d = 1 THEN {Logical(p[1], p[2]) : p \in Shapes \X KidSeqs(Atoms)}
    ELSE {Logical(p[1], Beside(p[2], p[3])) : p \in Shapes \X Nested(d - 1) \X (0..2)}

\* the depths of nesting the translator is applied to
Depths == 0..MaxDepth

-----------------------------------------------------------------------------
(* Inputs of the builder methods *)

Counts == 0..MaxCount

F_a == Obj(<<KV("a", Num(1))>>)
F_gt == Obj(<<KV("b", Obj(<<KV("$gt", Num(0))>>))>>)
F_empty == Obj(<<>>)
F_andFirst == Obj(<<KV("$and", Arr(<<F_gt>>)), KV("a", Num(0))>>)
F_andLast == Obj(<<KV("a", Num(0)), KV("$and", Arr(<<F_gt>>))>>)
F_andEmpty == Obj(<<KV("$and", Arr(<<>>))>>)
F_or == Obj(<<KV("$or", Arr(<<F_a, F_gt>>))>>)
F_ninEmpty == Obj(<<KV("b", Obj(<<KV("$nin", Arr(<<>>))>>))>>)
F_unknown == Obj(<<KV("a", Obj(<<KV(UnknownOp, Num(1))>>))>>)

QueryFilters == {F_a, F_gt, F_empty, F_andFirst, F_andLast, F_andEmpty, F_or}
WriteFilters == {F_a, F_empty, F_andEmpty, F_ninEmpty, F_unknown}

\* filters of the parent statement that hold the SubQuery
SubOperandOps == {"$in", "$nin", "$all", "$eq", "$ne", "$gt", "$gte", "$lt", "$lte"}
SubFilters ==
    {Obj(<<KV("id", SubQ)>>)}
    \cup {Obj(<<KV("id", Obj(<<KV(op, SubQ)>>))>>) : op \in SubOperandOps}
    \cup {Obj(<<KV("x", Num(1)), KV("id", v), KV("y", Num(0))>>) :
            v \in {SubQ, Obj(<<KV("$in", SubQ)>>), Obj(<<KV("$gt", SubQ)>>),
                   Obj(<<KV("$in", Arr(<<Num(1), SubQ, Num(0)>>))>>),
                   Obj(<<KV("$nin", Arr(<<SubQ, Num(1)>>))>>),
                   Obj(<<KV("$in", Arr(<<Num(1), Num(0)>>))>>),
                   Obj(<<KV("$nin", Arr(<<Num(0), Num(1)>>))>>)}}
\* filters given to the wrapped builder
WrappedFilters == {Obj(<<KV("amount", Obj(<<KV("$gt", Num(1))>>))>>),
                   Obj(<<KV("status", Num(0))>>)}

Projections == {<<Col("", "a")>>, <<Col("", "a"), Col("o", "x"), Col("z", "y")>>}
JoinInputs == {<<[tableName |-> "orders", alias |-> "o", joinType |-> "LEFT JOIN",
                  on |-> "users.id = o.user_id"]>>}
SortInputs == {<<W("a ASC")>>}

G_sum == Obj(<<KV("_id", Ref("customerId")), KV("total", Obj(<<KV("$sum", Ref("amount"))>>))>>)
G_bad == Obj(<<KV("_id", Null), KV("n", Obj(<<KV("$count", Num(1))>>))>>)
G_late == Obj(<<KV("_id", Ref("customerId")), KV("total", Obj(<<KV("$sum", Ref("amount"))>>)),
              KV("n", Obj(<<KV("$first", Ref("amount"))>>))>>)
G_multi == Obj(<<KV("_id", Obj(<<KV("customer", Ref("customerId")), KV("date", Ref("orderDate"))>>)),
               KV("total", Obj(<<KV("$sum", Ref("amount"))>>))>>)
G_lit == Obj(<<KV("_id", Str("all")), KV("total", Obj(<<KV("$sum", Ref("amount"))>>)),
             KV("top", Obj(<<KV("$max", Num(1))>>))>>)
G_null == Obj(<<KV("_id", Null), KV("low", Obj(<<KV("$min", Ref("amount"))>>))>>)
LookupArg == [from |-> "users", localField |-> "userId", foreignField |-> "id", as |-> "u"]

StageInputs ==
    {Stage("$match", F_a), Stage("$match", F_gt),
     Stage("$group", G_sum), Stage("$group", G_bad), Stage("$group", G_late),
     Stage("$group", G_multi), Stage("$group", G_lit), Stage("$group", G_null),
     Stage("$project", Arr(<<Str("a"), Str("b")>>)),
     Stage("$project", Arr(<<Str("c")>>)),
     Stage("$project", Obj(<<KV("field1", Num(1)), KV("field2", Num(1))>>)),
     Stage("$sort", Obj(<<KV("total", Num(-1))>>)),
     Stage("$sort", Obj(<<KV("b", Num(1)), KV("a", Num(-1)), KV("c", Num(0))>>)),
     Stage("$sort", Str("ab")),
     Stage("$lookup", LookupArg),
     Stage("$unwind", Str("items"))}
    \cup {Stage("$limit", Num(n)) : n \in Counts}
    \cup {Stage("$skip", Num(n)) : n \in Counts}

Rows == Arr(<<Obj(<<KV("id", Num(1)), KV("name", Num(1)), KV("age", Num(0))>>),
              Obj(<<KV("id", Num(0)), KV("age", Num(1))>>)>>)
RowsLate == Arr(<<Obj(<<KV("id", Num(1)), KV("age", Num(0))>>),
                  Obj(<<KV("name", Num(1)), KV("id", Num(0)), KV("age", Num(1))>>)>>)
UpdateInputs ==
    {Obj(<<KV("name", Num(1))>>),
     Obj(<<KV("$inc", Obj(<<KV("age", Num(1))>>)), KV("$unset", Obj(<<KV("tmp", Str(""))>>))>>),
     Obj(<<KV("$set", Obj(<<>>))>>),
     Obj(<<KV("$set", Obj(<<KV("name", Num(1)), KV("age", Num(0))>>)),
           KV("$mul", Obj(<<KV("age", Num(1))>>))>>),
     Obj(<<KV("$inc", Obj(<<KV("age", Num(1))>>)), KV("$push", Obj(<<KV("tags", Num(1))>>))>>),
     Rows,
     RowsLate,
     Arr(<<Obj(<<KV("name", Num(1))>>)>>),
     Arr(<<>>),
     Num(1)}

DocInputs == {Obj(<<KV("name", Num(1)), KV("age", Num(0))>>),
              Obj(<<KV("name", Num(0))>>),
              Obj(<<KV("name", Num(1)), KV("tags", Arr(<<Num(1), Num(0)>>))>>)}
DocsInputs == {Arr(<<>>),
               Arr(<<Obj(<<KV("name", Num(1)), KV("age", Num(0))>>),
                     Obj(<<KV("name", Num(0)), KV("meta", Obj(<<KV("k", Num(1))>>))>>)>>)}
UpsertFieldInputs == {None, Some(<<"age">>)}

PluginOps == {"$gt", "$exists", "$in", "$nin", "$all", UnknownOp}
Handlers == {"PLUGIN_1", "PLUGIN_2"}
PluginFilters ==
    {Obj(<<KV("a", Obj(<<KV(op, v)>>))>>) :
        <<op, v>> \in (PluginOps \X {Num(1), Arr(<<Num(1), Num(0)>>), SubQ})}

-----------------------------------------------------------------------------
(* Calls *)

NoRet == [op |-> "none", threw |-> FALSE, sql |-> <<>>, params |-> <<>>, err |-> None]
\* a chainable method returns `this`
Chained(op) == [op |-> op, threw |-> FALSE, sql |-> <<>>, params |-> <<>>, err |-> None]
\* a call that returns a statement or throws
Returned(op, sql, params, st) ==
    IF Failed(st) THEN [op |-> op, threw |-> TRUE, sql |-> <<>>, params |-> <<>>, err |-> st.err]
    ELSE [op |-> op, threw |-> FALSE, sql |-> sql, params |-> params, err |-> None]

\* the caller receives the statement r, or the exception r.st.err
Return(op, r) ==
    /\ ret' = Returned(op, r.sql, r.params, r.st)
    /\ cachedSQL' = r.st.cachedSQL

NoQueries == [select |-> <<>>, update |-> <<>>, delete |-> <<>>, wrapped |-> <<>>]

\* every object as its constructor leaves it
Fresh ==
    /\ OperatorPlugins = <<>>
    /\ sb = NewQueryBuilder("orders")
    /\ cachedSQL = None
    /\ qb = NewQueryBuilder("users")
    /\ ab = NewAggregationBuilder("orders")
    /\ ub = NewUpdateBuilder("users", "id")
    /\ db = NewDeleteBuilder("users")
    /\ ib = NewInsertBuilder("users")
    /\ queries = NoQueries
    /\ ret = NoRet

(* the translator on a drawn filter tree *)

\* parseMongoQuery(query, params = [], "root")
WhereText(r) == [sql |-> r.text, params |-> r.st.params, st |-> r.st]

Translate ==
    /\ built = "none"
    /\ Return("translate", WhereText(parseMongoQuery(query, NewSt(cachedSQL), "root")))
    /\ UNCHANGED <<query, OperatorPlugins, sb, qb, ab, ub, db, ib, built, queries>>

(* MongoQueryBuilder *)

Select_query(queryObj) ==
    /\ built = "select"
    /\ Len(queries.select) < MaxQueryCalls
    /\ qb' = [qb EXCEPT !.filter = MergeQuery(@, queryObj)]
    /\ queries' = [queries EXCEPT !.select = Append(@, queryObj)]
    /\ ret' = Chained("query")
    /\ UNCHANGED <<query, OperatorPlugins, sb, cachedSQL, ab, ub, db, ib, built>>

Select_project(fields) ==
    /\ built = "select"
    /\ qb' = [qb EXCEPT !.projection = Some(fields)]
    /\ ret' = Chained("project")
    /\ UNCHANGED <<query, OperatorPlugins, sb, cachedSQL, ab, ub, db, ib, built, queries>>

Select_join(joinConfigs) ==
    /\ built = "select"
    /\ qb' = [qb EXCEPT !.joinConfigs = joinConfigs]
    /\ ret' = Chained("join")
    /\ UNCHANGED <<query, OperatorPlugins, sb, cachedSQL, ab, ub, db, ib, built, queries>>

Select_sort(sortBy) ==
    /\ built = "select"
    /\ qb' = [qb EXCEPT !.sortClause = sortBy]
    /\ ret' = Chained("sort")
    /\ UNCHANGED <<query, OperatorPlugins, sb, cachedSQL, ab, ub, db, ib, built, queries>>

Select_limit(limit) ==
    /\ built = "select"
    /\ qb' = [qb EXCEPT !.limitValue = Some(limit)]
    /\ ret' = Chained("limit")
    /\ UNCHANGED <<query, OperatorPlugins, sb, cachedSQL, ab, ub, db, ib, built, queries>>

Select_skip(skip) ==
    /\ built = "select"
    /\ qb' = [qb EXCEPT !.offsetValue = Some(skip)]
    /\ ret' = Chained("skip")
    /\ UNCHANGED <<query, OperatorPlugins, sb, cachedSQL, ab, ub, db, ib, built, queries>>

Select_toSQL ==
    /\ built = "select"
    /\ Return("select.toSQL", MongoQueryBuilder_toSQL(qb, NewSt(cachedSQL)))
    /\ UNCHANGED <<query, OperatorPlugins, sb, qb, ab, ub, db, ib, built, queries>>

(* the MongoQueryBuilder a SubQuery wraps *)

Wrapped_query(queryObj) ==
    /\ built = "select"
    /\ Len(queries.wrapped) < MaxQueryCalls
    /\ sb' = [sb EXCEPT !.filter = MergeQuery(@, queryObj)]
    /\ queries' = [queries EXCEPT !.wrapped = Append(@, queryObj)]
    /\ ret' = Chained("wrapped.query")
    /\ UNCHANGED <<query, OperatorPlugins, cachedSQL, qb, ab, ub, db, ib, built>>

Wrapped_limit(limit) ==
    /\ built = "select"
    /\ sb' = [sb EXCEPT !.limitValue = Some(limit)]
    /\ ret' = Chained("wrapped.limit")
    /\ UNCHANGED <<query, OperatorPlugins, cachedSQL, qb, ab, ub, db, ib, built, queries>>

(* MongoAggregationBuilder *)

\* match(), group(), project(), sort(), limit(), skip(), lookup(), unwind():
\* each pushes one stage
Agg_push(stage) ==
    /\ built = "aggregate"
    /\ Len(ab.pipeline) < MaxStages
    /\ ab' = [ab EXCEPT !.pipeline = Append(@, stage)]
    /\ ret' = Chained(stage.op)
    /\ UNCHANGED <<query, OperatorPlugins, sb, cachedSQL, qb, ub, db, ib, built, queries>>

NumJoins(joinClause) ==
    Cardinality({i \in 1..Len(joinClause) : joinClause[i] = W("LEFT JOIN")})

\* this.joinClause keeps what the call appended to it
Agg_return(r) ==
    /\ ab' = [ab EXCEPT !.joinClause = r.joinClause]
    /\ Return("aggregate.toSQL", r)

Agg_toSQL ==
    /\ built = "aggregate"
    /\ NumJoins(ab.joinClause) < MaxJoins
    /\ Agg_return(MongoAggregationBuilder_toSQL(ab, NewSt(cachedSQL)))
    /\ UNCHANGED <<query, OperatorPlugins, sb, qb, ub, db, ib, built, queries>>

(* MongoUpdateBuilder *)

Update_update(updateData) ==
    LET r == MongoUpdateBuilder_update(ub, updateData, NewSt(cachedSQL)) IN
    /\ built = "update"
    /\ ub' = r.b
    /\ ret' = Returned("update", <<>>, <<>>, r.st)
    /\ UNCHANGED <<query, OperatorPlugins, sb, cachedSQL, qb, ab, db, ib, built, queries>>

Update_query(queryObj) ==
    /\ built = "update"
    /\ Len(queries.update) < MaxQueryCalls
    /\ ub' = [ub EXCEPT !.filter = MergeQuery(@, queryObj)]
    /\ queries' = [queries EXCEPT !.update = Append(@, queryObj)]
    /\ ret' = Chained("query")
    /\ UNCHANGED <<query, OperatorPlugins, sb, cachedSQL, qb, ab, db, ib, built>>

Update_single ==
    /\ built = "update"
    /\ ub' = [ub EXCEPT !.singleUpdate = TRUE]
    /\ ret' = Chained("single")
    /\ UNCHANGED <<query, OperatorPlugins, sb, cachedSQL, qb, ab, db, ib, built, queries>>

Update_toSQL ==
    /\ built = "update"
    /\ Return("update.toSQL", MongoUpdateBuilder_toSQL(ub, NewSt(cachedSQL)))
    /\ UNCHANGED <<query, OperatorPlugins, sb, qb, ab, ub, db, ib, built, queries>>

(* MongoDeleteBuilder *)

Delete_query(queryObj) ==
    /\ built = "delete"
    /\ Len(queries.delete) < MaxQueryCalls
    /\ db' = [db EXCEPT !.filter = MergeQuery(@, queryObj)]
    /\ queries' = [queries EXCEPT !.delete = Append(@, queryObj)]
    /\ ret' = Chained("query")
    /\ UNCHANGED <<query, OperatorPlugins, sb, cachedSQL, qb, ab, ub, ib, built>>

Delete_single ==
    /\ built = "delete"
    /\ db' = [db EXCEPT !.singleDelete = TRUE]
    /\ ret' = Chained("single")
    /\ UNCHANGED <<query, OperatorPlugins, sb, cachedSQL, qb, ab, ub, ib, built, queries>>

Delete_toSQL ==
    /\ built = "delete"
    /\ Return("delete.toSQL", MongoDeleteBuilder_toSQL(db, NewSt(cachedSQL)))
    /\ UNCHANGED <<query, OperatorPlugins, sb, qb, ab, ub, db, ib, built, queries>>

(* MongoInsertBuilder *)

Insert_insertOne(doc) ==
    /\ built = "insert"
    /\ ib' = [ib EXCEPT !.doc = doc]
    /\ ret' = Chained("insertOne")
    /\ UNCHANGED <<query, OperatorPlugins, sb, cachedSQL, qb, ab, ub, db, built, queries>>

Insert_insertMany(docs) ==
    /\ built = "insert"
    /\ ib' = [ib EXCEPT !.docs = docs]
    /\ ret' = Chained("insertMany")
    /\ UNCHANGED <<query, OperatorPlugins, sb, cachedSQL, qb, ab, ub, db, built, queries>>

Insert_upsert(enable, fields) ==
    /\ built = "insert"
    /\ ib' = [ib EXCEPT !.upsertEnabled = enable, !.upsertFields = fields]
    /\ ret' = Chained("upsert")
    /\ UNCHANGED <<query, OperatorPlugins, sb, cachedSQL, qb, ab, ub, db, built, queries>>

Insert_toSQL ==
    /\ built = "insert"
    /\ Return("insert.toSQL", MongoInsertBuilder_toSQL(ib, NewSt(cachedSQL)))
    /\ UNCHANGED <<query, OperatorPlugins, sb, qb, ab, ub, db, ib, built, queries>>

(* the plugin registry *)

registerOperatorPlugin(operator, handler) ==
    /\ built = "none"
    /\ Len(OperatorPlugins) < MaxPlugins
    /\ OperatorPlugins' = Append(OperatorPlugins, OperatorPlugin(operator, handler))
    /\ ret' = Chained("registerOperatorPlugin")
    /\ UNCHANGED <<query, sb, cachedSQL, qb, ab, ub, db, ib, built, queries>>

-----------------------------------------------------------------------------
(* Specifications *)

\* the translator applied to a drawn filter tree, no plugin registered
InitTranslate ==
    /\ Fresh
    /\ built = "none"
    /\ \/ query \in LeafFilters
       \/ \E d \in Depths : query \in Nested(d)
NextTranslate == Translate
SpecTranslate == InitTranslate /\ [][NextTranslate]_vars

\* registrations interleaved with translations of one operator application
InitPlugins == Fresh /\ built = "none" /\ query \in PluginFilters
NextPlugins ==
    \/ Translate
    \/ \E operator \in PluginOps, handler \in Handlers :
          registerOperatorPlugin(operator, handler)
SpecPlugins == InitPlugins /\ [][NextPlugins]_vars

\* chained calls on a Select builder
InitSelect == Fresh /\ built = "select" /\ query = Obj(<<>>)
NextSelect ==
    \/ \E queryObj \in QueryFilters : Select_query(queryObj)
    \/ \E fields \in Projections : Select_project(fields)
    \/ \E joinConfigs \in JoinInputs : Select_join(joinConfigs)
    \/ \E sortBy \in SortInputs : Select_sort(sortBy)
    \/ \E limit \in Counts : Select_limit(limit)
    \/ \E skip \in Counts : Select_skip(skip)
    \/ Select_toSQL
SpecSelect == InitSelect /\ [][NextSelect]_vars

\* a parent Select statement whose filter holds a SubQuery: the state after
\* new MongoQueryBuilder("users").query(F), then compilations of the parent
\* interleaved with calls on the wrapped builder
InitSubQuery ==
    \E F \in SubFilters :
        /\ OperatorPlugins = <<>>
        /\ sb = NewQueryBuilder("orders")
        /\ cachedSQL = None
        /\ qb = [NewQueryBuilder("users") EXCEPT !.filter = F]
        /\ ab = NewAggregationBuilder("orders")
        /\ ub = NewUpdateBuilder("users", "id")
        /\ db = NewDeleteBuilder("users")
        /\ ib = NewInsertBuilder("users")
        /\ queries = [NoQueries EXCEPT !.select = <<F>>]
        /\ ret = Chained("query")
        /\ built = "select"
        /\ query = Obj(<<>>)
NextSubQuery ==
    \/ Select_toSQL
    \/ \E queryObj \in WrappedFilters : Wrapped_query(queryObj)
    \/ \E limit \in Counts : Wrapped_limit(limit)
SpecSubQuery == InitSubQuery /\ [][NextSubQuery]_vars

\* chained calls on an Aggregation builder
InitAggregate == Fresh /\ built = "aggregate" /\ query = Obj(<<>>)
NextAggregate ==
    \/ \E stage \in StageInputs : Agg_push(stage)
    \/ Agg_toSQL
SpecAggregate == InitAggregate /\ [][NextAggregate]_vars

\* chained calls on an Update builder or on a Delete builder
InitWrite == Fresh /\ built \in {"update", "delete"} /\ query = Obj(<<>>)
NextWrite ==
    \/ \E updateData \in UpdateInputs : Update_update(updateData)
    \/ \E queryObj \in WriteFilters : Update_query(queryObj)
    \/ Update_single
    \/ Update_toSQL
    \/ \E queryObj \in WriteFilters : Delete_query(queryObj)
    \/ Delete_single
    \/ Delete_toSQL
SpecWrite == InitWrite /\ [][NextWrite]_vars

\* chained calls on an Insert builder
InitInsert == Fresh /\ built = "insert" /\ query = Obj(<<>>)
NextInsert ==
    \/ \E doc \in DocInputs : Insert_insertOne(doc)
    \/ \E docs \in DocsInputs : Insert_insertMany(docs)
    \/ \E enable \in BOOLEAN, fields \in UpsertFieldInputs : Insert_upsert(enable, fields)
    \/ Insert_toSQL
SpecInsert == InitInsert /\ [][NextInsert]_vars

-----------------------------------------------------------------------------
(* Properties *)

ToSQLOps == {"select.toSQL", "aggregate.toSQL", "update.toSQL", "delete.toSQL",
             "insert.toSQL"}
MissingFilter(builder, message) ==
    SQLGenerationError(message \o " | Context: \"" \o builder \o "\"")

\* C1: for every filter tree (nested $and/$or/$nor, operator maps, literals,
\* empty arrays) the WHERE text parseMongoQuery returns has as many `?`
\* placeholders as the call appended values to params, and the i-th appended
\* value is the one the i-th placeholder, in textual order, was emitted for.
C1_PlaceholdersAlignWithParams ==
    (ret.op = "translate" /\ ~ret.threw) =>
        /\ Len(Placeholders(ret.sql)) = Len(ret.params)
        /\ Owners(ret.sql) = ret.params

C1_Witness ==
    /\ ret.op = "translate" /\ ~ret.threw
    /\ HasKey(query, "$or") /\ HasKey(query, "b")
    /\ Len(ret.params) >= 4
    /\ \E i \in 1..Len(ret.params) : ret.params[i] # ret.params[1]

\* C2: every statement a builder's toSQL() returns has as many `?`
\* placeholders in sql as params has elements.
C2_StatementPlaceholdersEqualParams ==
    (ret.op \in ToSQLOps /\ ~ret.threw) =>
        Len(Placeholders(ret.sql)) = Len(ret.params)

\* C3: an Update or Delete builder on which query() was never called throws
\* the missing-filter error on toSQL() and returns no statement, whatever
\* update()/single() calls were made, in the single-object and the bulk form.
C3_NoFilterThrows ==
    /\ (ret.op = "update.toSQL" /\ queries.update = <<>>) =>
          /\ ret.threw /\ ret.sql = <<>>
          /\ ret.err = Some(MissingFilter("MongoUpdateBuilder",
                                          "update needs a query condition"))
    /\ (ret.op = "delete.toSQL" /\ queries.delete = <<>>) =>
          /\ ret.threw /\ ret.sql = <<>>
          /\ ret.err = Some(MissingFilter("MongoDeleteBuilder",
                                          "delete needs a query condition"))

C3_Witness ==
    /\ ret.op = "update.toSQL" /\ queries.update = <<>>
    /\ ub.dataArray # None /\ ub.dataArray[1] # <<>> /\ ub.singleUpdate
    /\ ret.threw

\* C4: {$and: []} translates to `1=1`, {$or: []} to `1=0`, {$nor: []} to
\* `1=1`, {f: {$in: []}} to `1=0` and {f: {$nin: []}} to `1=1`, each time
\* with no parameter appended.
C4_EmptySequencePolicy ==
    ret.op = "translate" =>
        /\ query \in {Obj(<<KV("$and", Arr(<<>>))>>), Obj(<<KV("$nor", Arr(<<>>))>>),
                      Obj(<<KV("a", Obj(<<KV("$nin", Arr(<<>>))>>))>>)}
              => (~ret.threw /\ Sql(ret.sql) = <<W("1=1")>> /\ ret.params = <<>>)
        /\ query \in {Obj(<<KV("$or", Arr(<<>>))>>),
                      Obj(<<KV("a", Obj(<<KV("$in", Arr(<<>>))>>))>>)}
              => (~ret.threw /\ Sql(ret.sql) = <<W("1=0")>> /\ ret.params = <<>>)

C4_Witness ==
    /\ ret.op = "translate"
    /\ query = Obj(<<KV("a", Obj(<<KV("$nin", Arr(<<>>))>>))>>)
    /\ Sql(ret.sql) = <<W("1=1")>>

\* C5: on a Select builder, query(F1).query(F2)... with F1 non-empty compiles
\* to the same statement text and the same params, in the same order, as one
\* query({$and: [F1, F2, ...]}), also when F1 has a top-level $and key.
C5_RepeatedQueryIsExplicitAnd ==
    (ret.op = "select.toSQL" /\ Len(queries.select) >= 2
        /\ queries.select[1] # Obj(<<>>)) =>
        LET single == [qb EXCEPT !.filter = Obj(<<KV("$and", Arr(queries.select))>>)]
            ref == MongoQueryBuilder_toSQL(single, NewSt(cachedSQL))
        IN /\ ret.threw = Failed(ref.st)
           /\ Sql(ret.sql) = Sql(ref.sql)
           /\ ret.params = ref.params

\* C6: a SubQuery that is the value of field `id`, or the operand of any
\* operator on it, is emitted as `id IN (<subquery sql>)` and the subquery's
\* params stand exactly there: after the params of the clauses to its left
\* and before those of the clauses to its right.
SubOperandFilters ==
    {F \in SubFilters :
        LET v == Get(F, "id") IN
        v = SubQ \/ (v.t = "obj" /\ v.ents[1].val = SubQ)}
C6_SubQueryEmbeddedInPlace ==
    (ret.op = "select.toSQL" /\ qb.filter \in SubOperandFilters) =>
        LET sib == HasKey(qb.filter, "x")
            sub == MongoQueryBuilder_toSQL(sb, NewSt(cachedSQL))
        IN /\ ~ret.threw
           /\ cachedSQL # None
           /\ Sql(ret.sql) =
                <<W("SELECT"), W("*"), W("FROM"), W("users"), W("WHERE")>> \o
                (IF sib THEN <<W("x"), W("="), W("?"), W("AND")>> ELSE <<>>) \o
                <<W("id"), W("IN")>> \o Sql(cachedSQL[1]) \o
                (IF sib THEN <<W("AND"), W("y"), W("="), W("?")>> ELSE <<>>)
           /\ ret.params =
                (IF sib THEN <<Num(1)>> ELSE <<>>) \o sub.params \o
                (IF sib THEN <<Num(0)>> ELSE <<>>)

\* C7: whenever a parent statement has been compiled, the SQL text the
\* SubQuery handed over and the params it handed over come from one
\* compilation of the wrapped builder: the text is that compilation's sql in
\* parentheses and has as many placeholders as there are params.
C7_SubQueryOneCompilation ==
    (ret.op = "select.toSQL" /\ ~ret.threw /\ cachedSQL # None) =>
        LET compiled == MongoQueryBuilder_toSQL(sb, NewSt(cachedSQL)) IN
        /\ Sql(cachedSQL[1]) = Sql(Paren(compiled.sql))
        /\ Len(Placeholders(cachedSQL[1])) = Len(compiled.params)

\* C8: toSQL() leaves every builder field unchanged, and a toSQL() call that
\* directly follows a toSQL() call on the same builder returns an equal
\* statement.
C8_ToSQLReadOnly ==
    [][ret'.op \in ToSQLOps =>
          /\ <<qb, ab, ub, db, ib>>' = <<qb, ab, ub, db, ib>>
          /\ (ret.op = ret'.op => ret' = ret)]_vars

\* C9: the statement ends with `LIMIT n` for limit n alone, `LIMIT n OFFSET m`
\* for limit n and offset m, `LIMIT 18446744073709551615 OFFSET m` for offset m
\* alone, and has neither LIMIT nor OFFSET when neither was given; for the
\* Select builder and the aggregation compiler, for every n and every m >= 0.
PagingRule(limit, offset) ==
    IF limit # None /\ offset = None THEN <<W("LIMIT"), N(limit[1])>>
    ELSE IF limit # None /\ offset # None
    THEN <<W("LIMIT"), N(limit[1]), W("OFFSET"), N(offset[1])>>
    ELSE IF offset # None
    THEN <<W("LIMIT"), W("18446744073709551615"), W("OFFSET"), N(offset[1])>>
    ELSE <<>>
\* the text from the LIMIT keyword on, and whether OFFSET occurs before it
PagingTail(sql) ==
    LET at == {i \in 1..Len(sql) : sql[i] = W("LIMIT")} IN
    IF at = {} THEN <<>> ELSE SubSeq(sql, CHOOSE i \in at : \A j \in at : i <= j, Len(sql))
PagingHead(sql) == SubSeq(sql, 1, Len(sql) - Len(PagingTail(sql)))
\* the count of the last stage of a kind, None without such a stage
LastStage(pipeline, op) ==
    LET at == {i \in 1..Len(pipeline) : pipeline[i].op = op} IN
    IF at = {} THEN None
    ELSE Some(pipeline[CHOOSE i \in at : \A j \in at : j <= i].arg.v)
C9_PagingRule ==
    /\ (ret.op = "select.toSQL" /\ ~ret.threw) =>
          /\ PagingTail(ret.sql) = PagingRule(qb.limitValue, qb.offsetValue)
          /\ \A i \in 1..Len(PagingHead(ret.sql)) : ret.sql[i] # W("OFFSET")
    /\ (ret.op = "aggregate.toSQL" /\ ~ret.threw) =>
          /\ PagingTail(ret.sql) =
                PagingRule(LastStage(ab.pipeline, "$limit"), LastStage(ab.pipeline, "$skip"))
          /\ \A i \in 1..Len(PagingHead(ret.sql)) : ret.sql[i] # W("OFFSET")

\* C10: when a plugin is registered for the operator token of {a: {op: v}},
\* the handler of the first such plugin alone produces the clause and the
\* params, for every token and every operand, a SubQuery included.
C10_PluginConsultedFirst ==
    (ret.op = "translate" /\ FirstPluginIndex(query.ents[1].val.ents[1].key) # 0) =>
        LET operand == query.ents[1].val.ents[1].val
            plugin == OperatorPlugins[FirstPluginIndex(query.ents[1].val.ents[1].key)]
        IN /\ ~ret.threw
           /\ ret.sql = <<W("a"), W(plugin.handler), Ph(operand)>>
           /\ ret.params = <<operand>>


\* the operator tokens the translator is said to support on a field
SupportedOps == {"$in", "$nin", "$all", "$exists", "$size", "$elemMatch", "$regex",
                 "$like", "$eq", "$ne", "$gt", "$gte", "$lt", "$lte"}
\* a field of q carries a $-token outside SupportedOps
UnsupportedHere(q) ==
    \E i \in 1..Len(q.ents) :
        /\ ~startsWithDollar(q.ents[i].key)
        /\ q.ents[i].val.t = "obj"
        /\ \E j \in 1..Len(q.ents[i].val.ents) :
              /\ startsWithDollar(q.ents[i].val.ents[j].key)
              /\ q.ents[i].val.ents[j].key \notin SupportedOps
\* the children of the logical operators of q
KidsOf(q) ==
    UNION {{q.ents[i].val.elems[j] : j \in 1..Len(q.ents[i].val.elems)} :
              i \in {k \in 1..Len(q.ents) :
                        startsWithDollar(q.ents[k].key) /\ q.ents[k].val.t = "arr"}}
RECURSIVE HasUnsupported(_)
HasUnsupported(q) ==
    UnsupportedHere(q) \/ \E kid \in KidsOf(q) : HasUnsupported(kid)

\* C11: with no plugin registered, a filter in which a field carries an
\* operator token outside the supported set, at any depth of nesting, makes
\* the translation throw and return no WHERE text.
C11_UnsupportedOperatorThrows ==
    (ret.op = "translate" /\ HasUnsupported(query)) =>
        (ret.threw /\ ret.sql = <<>>)

\* the first child of the only key of q whose translation throws, with the
\* context of its frame
FailingKid(q) ==
    LET kids == q.ents[1].val.elems
        tag == IF q.ents[1].key = "$or" THEN "OR"
               ELSE IF q.ents[1].key = "$nor" THEN "NOR" ELSE "AND"
        k == CHOOSE i \in 1..Len(kids) :
                /\ HasUnsupported(kids[i])
                /\ \A j \in 1..(i - 1) : ~HasUnsupported(kids[j])
    IN [filter |-> kids[k], context |-> "root->" \o tag \o "[" \o ToString(k - 1) \o "]"]
\* the exception the frame of FailingKid(q) raises
InnerError(kid) == parseMongoQuery(kid.filter, NewSt(None), kid.context).st.err

\* C12: when the translation of a child of $and/$or/$nor throws, the caller
\* of the outer translation receives that exception unchanged, same kind and
\* same message, and no WHERE text.
C12_NestedFailureUnchanged ==
    (/\ ret.op = "translate" /\ ret.threw
     /\ Len(query.ents) = 1 /\ query.ents[1].key \in {"$and", "$or", "$nor"}) =>
        /\ ret.sql = <<>>
        /\ ret.err = InnerError(FailingKid(query))

\* the values a driver binds as they are: number, string, boolean, null
Scalar(v) == v.t \in {"lit", "null", "string", "ref", "str"}

\* C13: every element of the params an Insert builder's toSQL() returns is
\* a scalar, for insertOne and insertMany: arrays and objects in a document
\* reach params serialized.
C13_InsertParamsScalar ==
    (ret.op = "insert.toSQL" /\ ~ret.threw) =>
        \A i \in 1..Len(ret.params) : Scalar(ret.params[i])

\* the non-identity keys of all rows, flattened in row order
BulkKeys(rows, idField) ==
    SelectSeq(Flatten([r \in 1..Len(rows) |-> Keys(rows[r])]), LAMBDA k : k # idField)
\* the distinct non-identity columns, ordered by first occurrence
BulkColumns(rows, idField) ==
    LET ks == BulkKeys(rows, idField)
        K == {ks[i] : i \in 1..Len(ks)}
        first(k) == CHOOSE i \in 1..Len(ks) : ks[i] = k /\ \A j \in 1..(i - 1) : ks[j] # k
    IN CHOOSE s \in [1..Cardinality(K) -> K] :
          \A i, j \in 1..Cardinality(K) : i < j => first(s[i]) < first(s[j])
\* the rows that set col, in row order
BulkSetters(rows, col) == SelectSeq(rows, LAMBDA obj : HasKey(obj, col))
\* col = CASE idField WHEN ? THEN ? ... ELSE col END
BulkCase(rows, idField, col) ==
    <<W(col), W("="), W("CASE"), W(idField)>> \o
    Flatten([r \in 1..Len(BulkSetters(rows, col)) |->
                <<W("WHEN"), W("?"), W("THEN"), W("?")>>]) \o
    <<W("ELSE"), W(col), W("END")>>
\* the (id, value) pairs of the rows that set col
BulkPairs(rows, idField, col) ==
    Flatten([r \in 1..Len(BulkSetters(rows, col)) |->
                <<Get(BulkSetters(rows, col)[r], idField),
                  Get(BulkSetters(rows, col)[r], col)>>])
\* the statement and the params of the bulk form around the translation
\* `extra` of the filter
BulkExpected(b, rows, cols, extra) ==
    [sql |-> <<W("UPDATE"), W(b.tableName), W("SET")>> \o
             Join([c \in 1..Len(cols) |-> BulkCase(rows, b.idField, cols[c])], COMMA) \o
             <<W("WHERE"), W(b.idField), W("IN")>> \o
             Paren(Join([r \in 1..Len(rows) |-> <<W("?")>>], COMMA)) \o
             (IF Sql(extra.text) = TRUE_SQL THEN <<>>
              ELSE <<W("AND")>> \o Paren(Sql(extra.text))) \o
             (IF b.singleUpdate THEN <<W("LIMIT"), N(1)>> ELSE <<>>),
     params |-> Flatten([c \in 1..Len(cols) |-> BulkPairs(rows, b.idField, cols[c])]) \o
                [r \in 1..Len(rows) |-> Get(rows[r], b.idField)] \o
                extra.st.params]

\* C14: the bulk form of the Update builder compiles to one
\* `col = CASE <idField> WHEN ? THEN ? ... ELSE col END` per distinct
\* non-identity column in first-seen order, with one WHEN/THEN pair per row
\* that sets the column; params are the (id, value) pairs column by column,
\* then the ids of all rows for `<idField> IN (...)`, then the params of the
\* extra filter, which is ANDed in parentheses only when it is not `1=1`.
C14_BulkUpdateShape ==
    (ret.op = "update.toSQL" /\ ~ret.threw /\ ub.dataArray # None) =>
        [sql |-> Sql(ret.sql), params |-> ret.params] =
            BulkExpected(ub, ub.dataArray[1], BulkColumns(ub.dataArray[1], ub.idField),
                parseMongoQuery(ub.filter, NewSt(None), "BULK_UPDATE"))

C14_Witness ==
    /\ ret.op = "update.toSQL" /\ ~ret.threw /\ ub.dataArray # None
    /\ ub.dataArray[1] = RowsLate.elems
    /\ ub.filter = F_a
    /\ ret.params = <<Num(1), Num(0), Num(0), Num(1), Num(0), Num(1), Num(1), Num(0), Num(1)>>

\* a named output of the Group stage g uses an operator other than
\* $sum, $avg, $min, $max
BadGroup(g) ==
    \E i \in 1..Len(g.ents) :
        /\ g.ents[i].key # "_id"
        /\ \/ Keys(g.ents[i].val) = <<>>
           \/ Keys(g.ents[i].val)[1] \notin {"$sum", "$avg", "$min", "$max"}

ClauseWords == <<"SELECT", "FROM", "LEFT JOIN", "/* UNWIND(", "WHERE", "GROUP BY",
                 "HAVING", "ORDER BY", "LIMIT", "OFFSET">>
IsClauseWord(tok) == \E r \in 1..Len(ClauseWords) : tok.s = ClauseWords[r]
ClauseRank(tok) == CHOOSE r \in 1..Len(ClauseWords) : tok.s = ClauseWords[r]
\* the ranks of the clause words of sql, in textual order
ClauseRanks(sql) ==
    [k \in 1..Len(SelectSeq(sql, IsClauseWord)) |->
        ClauseRank(SelectSeq(sql, IsClauseWord)[k])]
\* joins and unwind comments may repeat; every other clause appears once
InClauseOrder(ranks) ==
    \A k \in 1..(Len(ranks) - 1) :
        \/ ranks[k] < ranks[k + 1]
        \/ ranks[k] = ranks[k + 1] /\ ranks[k] \in {3, 4}
HasWord(sql, w) == \E k \in 1..Len(sql) : sql[k] = W(w)
HasStage(pipeline, op) == \E k \in 1..Len(pipeline) : pipeline[k].op = op
\* the index and the argument of the last stage of a kind, 0 without one
LastAt(pipeline, op) ==
    IF HasStage(pipeline, op)
    THEN CHOOSE k \in 1..Len(pipeline) :
            pipeline[k].op = op /\ \A j \in (k + 1)..Len(pipeline) : pipeline[j].op # op
    ELSE 0
LastArg(pipeline, op) == pipeline[LastAt(pipeline, op)].arg
SwapStages(pipeline, i, j) ==
    [k \in 1..Len(pipeline) |->
        IF k = i THEN pipeline[j] ELSE IF k = j THEN pipeline[i] ELSE pipeline[k]]

\* match {status: "completed"}, group by customerId with total = sum of
\* amount, sort by total descending, limit 10, skip 5, on table orders
ExamplePipeline ==
    <<Stage("$match", Obj(<<KV("status", Str("completed"))>>)),
      Stage("$group", G_sum),
      Stage("$sort", Obj(<<KV("total", Num(-1))>>)),
      Stage("$limit", Num(10)),
      Stage("$skip", Num(5))>>
ExampleStatement ==
    <<W("SELECT"), W("customerId"), W("AS"), W("_id"), W(","),
      W("SUM"), W("("), W("amount"), W(")"), W("AS"), W("total"),
      W("FROM"), W("orders"),
      W("WHERE"), W("status"), W("="), W("?"),
      W("GROUP BY"), W("customerId"),
      W("ORDER BY"), W("total"), W("DESC"),
      W("LIMIT"), N(10), W("OFFSET"), N(5)>>
Compiled(pipeline) ==
    MongoAggregationBuilder_toSQL(
        [NewAggregationBuilder("orders") EXCEPT !.pipeline = pipeline], NewSt(None))
SameStatement(r, sql, params) == ~Failed(r.st) /\ Sql(r.sql) = sql /\ r.params = params

\* C16: whatever the order of the stages, the statement an aggregation
\* compiles to has its clauses in the order SELECT, FROM, joins, unwind
\* comments, WHERE, GROUP BY, HAVING, ORDER BY, LIMIT, OFFSET, a clause
\* being absent when no stage fills it; exchanging a limit stage with a skip
\* stage, no other of the two kinds between them, does not change the
\* statement; and the pipeline match, group, sort,
\* limit(10), skip(5) compiles to the statement of the example, with
\* params ["completed"], in both orders of limit and skip.
C16_AggregationClauseOrder ==
    /\ (ret.op = "aggregate.toSQL" /\ ~ret.threw) =>
          /\ InClauseOrder(ClauseRanks(ret.sql))
          /\ ret.sql[1] = W("SELECT")
          /\ HasWord(ret.sql, "FROM")
          /\ HasWord(ret.sql, "LEFT JOIN") <=> HasStage(ab.pipeline, "$lookup")
          /\ HasWord(ret.sql, "/* UNWIND(") <=> HasStage(ab.pipeline, "$unwind")
          /\ HasWord(ret.sql, "WHERE") <=> HasStage(ab.pipeline, "$match")
          /\ HasWord(ret.sql, "GROUP BY") <=>
                (/\ HasStage(ab.pipeline, "$group")
                 /\ Truthy(Get(LastArg(ab.pipeline, "$group"), "_id")))
          /\ ~HasWord(ret.sql, "HAVING")
          /\ HasWord(ret.sql, "ORDER BY") <=> HasStage(ab.pipeline, "$sort")
          /\ HasWord(ret.sql, "LIMIT") =>
                (HasStage(ab.pipeline, "$limit") \/ HasStage(ab.pipeline, "$skip"))
          /\ HasWord(ret.sql, "OFFSET") => HasStage(ab.pipeline, "$skip")
    /\ (ret.op = "aggregate.toSQL" /\ ~HasStage(ab.pipeline, "$lookup")) =>
          \A i, j \in 1..Len(ab.pipeline) :
              (/\ i < j
               /\ {ab.pipeline[i].op, ab.pipeline[j].op} = {"$limit", "$skip"}
               /\ \A k \in (i + 1)..(j - 1) :
                     ab.pipeline[k].op \notin {"$limit", "$skip"}) =>
                  Compiled(SwapStages(ab.pipeline, i, j)).sql = ret.sql
    /\ SameStatement(Compiled(ExamplePipeline), ExampleStatement, <<Str("completed")>>)
    /\ SameStatement(Compiled(SwapStages(ExamplePipeline, 4, 5)), ExampleStatement,
                     <<Str("completed")>>)

C16_Witness ==
    /\ ret.op = "aggregate.toSQL" /\ ~ret.threw
    /\ Len(ab.pipeline) = 3
    /\ ab.pipeline[1].op = "$sort"
    /\ ab.pipeline[2] = Stage("$group", G_sum)
    /\ ab.pipeline[3].op = "$match"
    /\ ClauseRanks(ret.sql) = <<1, 2, 5, 6, 8>>

\* the WHERE text of each child, translated on its own
KidTexts(kids) ==
    [i \in 1..Len(kids) |-> Sql(parseMongoQuery(kids[i], NewSt(None), "root").text)]
\* each text in its own parentheses, joined with sep
ParenJoin(texts, sep) == Join([i \in 1..Len(texts) |-> Paren(texts[i])], sep)
\* the clause of `op` over children whose texts are `texts`
WrappedClause(op, texts) ==
    IF op = "$and" THEN {ParenJoin(texts, AND), Paren(ParenJoin(texts, AND))}
    ELSE IF op = "$or" THEN {ParenJoin(texts, OR), Paren(ParenJoin(texts, OR))}
    ELSE {<<W("NOT")>> \o Paren(ParenJoin(texts, OR))}

\* the texts that take part in the join: every text for $and, the texts
\* other than `1=1` for $or and $nor
KeptTexts(op, texts) ==
    IF op = "$and" THEN SelectSeq(texts, NonEmptyText) ELSE SelectSeq(texts, NotTrivial)

\* C17: for a filter {$and|$or|$nor: children} with a non-empty sequence
\* of children, the text of every child stands in its own parentheses
\* before the texts are joined (the `1=1` children of $or/$nor left out);
\* $nor is `NOT ( ... )` around the OR-join.
C17_ChildrenParenthesized ==
    (/\ ret.op = "translate" /\ ~ret.threw
     /\ Len(query.ents) = 1 /\ query.ents[1].key \in {"$and", "$or", "$nor"}
     /\ KeptTexts(query.ents[1].key, KidTexts(query.ents[1].val.elems)) # <<>>) =>
        Sql(ret.sql) \in
            WrappedClause(query.ents[1].key,
                KeptTexts(query.ents[1].key, KidTexts(query.ents[1].val.elems)))

\* the params each child appends, translated on its own
KidParams(kids) ==
    [i \in 1..Len(kids) |-> parseMongoQuery(kids[i], NewSt(None), "root").st.params]
\* the children whose text is not `1=1`
KeptKids(kids) ==
    SelectSeq(kids, LAMBDA kid : NotTrivial(Sql(parseMongoQuery(kid, NewSt(None), "root").text)))
\* text without its parentheses
NoParens(text) == SelectSeq(text, LAMBDA tok : tok.s \notin {"(", ")"})
\* the disjunction of the texts, parentheses aside
Disjunction(texts) == Join([i \in 1..Len(texts) |-> NoParens(texts[i])], OR)

\* C18: in {$or: children} and {$nor: children} the children whose text is
\* `1=1` take no part in the join and add nothing to params; when no child
\* remains the clause is `1=0` for $or and `1=1` for $nor, with no params.
C18_TrivialChildrenElided ==
    (/\ ret.op = "translate" /\ ~ret.threw
     /\ Len(query.ents) = 1 /\ query.ents[1].key \in {"$or", "$nor"}) =>
        /\ ret.params = Flatten(KidParams(KeptKids(query.ents[1].val.elems)))
        /\ NoParens(Sql(ret.sql)) =
              IF KeptKids(query.ents[1].val.elems) = <<>>
              THEN (IF query.ents[1].key = "$or" THEN FALSE_SQL ELSE TRUE_SQL)
              ELSE (IF query.ents[1].key = "$or" THEN <<>> ELSE <<W("NOT")>>) \o
                   Disjunction(KidTexts(KeptKids(query.ents[1].val.elems)))

C18_Witness ==
    /\ ret.op = "translate" /\ ~ret.threw
    /\ query = Obj(<<KV("$nor", Arr(<<Obj(<<>>), Obj(<<KV("a", Num(1))>>)>>))>>)
    /\ Sql(ret.sql) = <<W("NOT"), W("("), W("a"), W("="), W("?"), W(")")>>
    /\ ret.params = <<Num(1)>>

\* the filters {x: 1, id: {$in|$nin: [...]}, y: 0} over a non-empty array
ListFilters ==
    {F \in SubFilters :
        /\ HasKey(F, "x")
        /\ Get(F, "id").t = "obj"
        /\ Get(F, "id").ents[1].key \in {"$in", "$nin"}
        /\ Get(F, "id").ents[1].val.t = "arr"}
\* the `IN (...)` clause and the params of operator op over the elements
\* vs, where sub is the statement of the wrapped builder
ListExpected(op, vs, sub) ==
    [sql |-> <<W("SELECT"), W("*"), W("FROM"), W("users"), W("WHERE"),
               W("x"), W("="), W("?"), W("AND"), W("id"),
               W(IF op = "$in" \/ (\E i \in 1..Len(vs) : vs[i] = SubQ)
                 THEN "IN" ELSE "NOT IN")>> \o
             Paren(Join([i \in 1..Len(vs) |->
                           IF vs[i] = SubQ THEN Sql(Paren(sub.sql)) ELSE <<W("?")>>],
                        COMMA)) \o
             <<W("AND"), W("y"), W("="), W("?")>>,
     params |-> <<Num(1)>> \o
                Flatten([i \in 1..Len(vs) |->
                           IF vs[i] = SubQ THEN sub.params ELSE <<vs[i]>>]) \o
                <<Num(0)>>]

\* C19: {f: {$in: vs}} and {f: {$nin: vs}} with vs non-empty compile to
\* `f IN (?, ...)` and `f NOT IN (?, ...)` with one placeholder and one
\* param per element, in order; when an element is a SubQuery the clause is
\* an `IN (...)` list whose literals are `?` and whose SubQuery elements are
\* the SQL text of the subquery, each element adding its params at its own
\* position.
C19_InListShape ==
    (ret.op = "select.toSQL" /\ qb.filter \in ListFilters) =>
        /\ ~ret.threw
        /\ [sql |-> Sql(ret.sql), params |-> ret.params] =
              ListExpected(Get(qb.filter, "id").ents[1].key,
                           Get(qb.filter, "id").ents[1].val.elems,
                           MongoQueryBuilder_toSQL(sb, NewSt(None)))

\* the token that follows the clause word w in sql, None without the word
CountAfter(sql, w) ==
    IF \E k \in 1..(Len(sql) - 1) : sql[k] = W(w)
    THEN Some(sql[1 + CHOOSE k \in 1..(Len(sql) - 1) : sql[k] = W(w)])
    ELSE None

\* C20: an aggregation with several Limit stages compiles with the count
\* of the last one after LIMIT, and with several Skip stages with the count
\* of the last one after OFFSET, for every count, 0 included.
C20_LastPagingStageWins ==
    (ret.op = "aggregate.toSQL" /\ ~ret.threw) =>
        /\ LastStage(ab.pipeline, "$limit") # None =>
              CountAfter(ret.sql, "LIMIT") = Some(N(LastStage(ab.pipeline, "$limit")[1]))
        /\ LastStage(ab.pipeline, "$skip") # None =>
              CountAfter(ret.sql, "OFFSET") = Some(N(LastStage(ab.pipeline, "$skip")[1]))

\* the text between SELECT and FROM
SelectList(sql) ==
    SubSeq(sql, 2, (CHOOSE k \in 1..Len(sql) : sql[k] = W("FROM") /\
                        \A j \in 1..(k - 1) : sql[j] # W("FROM")) - 1)
\* the projected fields: the elements of a list, the keys of a field->1 map
ProjectedFields(arg) ==
    IF arg.t = "arr" THEN Join([i \in 1..Len(arg.elems) |-> Interp(arg.elems[i])], COMMA)
    ELSE Join([i \in 1..Len(Keys(arg)) |-> <<W(Keys(arg)[i])>>], COMMA)
\* the Project stages behind position g
ProjectsAfter(pipeline, g) ==
    {k \in (g + 1)..Len(pipeline) : pipeline[k].op = "$project"}

\* C21: without a Group stage, the SELECT list of an aggregation with
\* Project stages is exactly the fields of the last Project stage, given as
\* a list or as a field->1 map; a Project stage behind the last Group stage
\* puts its fields in front of the Group stage's columns, which are kept.
C21_ProjectStage ==
    (ret.op = "aggregate.toSQL" /\ ~ret.threw /\ HasStage(ab.pipeline, "$project")) =>
        /\ ~HasStage(ab.pipeline, "$group") =>
              SelectList(ret.sql) = ProjectedFields(LastArg(ab.pipeline, "$project"))
        /\ (/\ HasStage(ab.pipeline, "$group")
            /\ Cardinality(ProjectsAfter(ab.pipeline, LastAt(ab.pipeline, "$group"))) = 1) =>
              SelectList(ret.sql) =
                  ProjectedFields(LastArg(ab.pipeline, "$project")) \o COMMA \o
                  parseGroupStage(LastArg(ab.pipeline, "$group"), NewSt(None)).selectClause

\* the text behind ORDER BY, up to the paging clause
OrderText(sql) ==
    LET head == PagingHead(sql) IN
    SubSeq(head, 1 + (CHOOSE k \in 1..Len(head) : head[k] = W("ORDER BY")), Len(head))
\* `field DESC` for -1, `field ASC` otherwise, in mapping order; a string
\* as it is
SortText(arg) ==
    IF arg.t = "string" THEN <<W(arg.s)>>
    ELSE Join([i \in 1..Len(arg.ents) |->
                  <<W(arg.ents[i].key),
                    W(IF arg.ents[i].val = Num(-1) THEN "DESC" ELSE "ASC")>>], COMMA)

\* C22: the ORDER BY clause of an aggregation is, for a Sort stage given as
\* a field->direction map, `field DESC` for direction -1 and `field ASC`
\* for any other, comma-joined in mapping order, and for a Sort stage given
\* as a string that string verbatim.
C22_SortStage ==
    (ret.op = "aggregate.toSQL" /\ ~ret.threw /\ HasStage(ab.pipeline, "$sort")) =>
        /\ HasWord(ret.sql, "ORDER BY")
        /\ OrderText(ret.sql) = SortText(LastArg(ab.pipeline, "$sort"))

\* the filters of the Match stages, in pipeline order
MatchFilters(pipeline) ==
    [k \in 1..Len(SelectSeq(pipeline, LAMBDA stage : stage.op = "$match")) |->
        SelectSeq(pipeline, LAMBDA stage : stage.op = "$match")[k].arg]
\* the text behind WHERE, up to the next clause
WhereOf(sql) ==
    LET from == CHOOSE k \in 1..Len(sql) : sql[k] = W("WHERE")
        stops == {k \in (from + 1)..Len(sql) :
                     sql[k].s \in {"GROUP BY", "HAVING", "ORDER BY", "LIMIT"}}
    IN SubSeq(sql, from + 1,
              IF stops = {} THEN Len(sql) ELSE (CHOOSE k \in stops : \A j \in stops : k <= j) - 1)

\* C23: the WHERE clause of an aggregation is the translations of the
\* filters of its Match stages joined by AND in pipeline order, and params
\* is the concatenation of their params in that order, whatever stages
\* stand between them; without a Match stage there is no WHERE clause.
C23_MatchStagesAccumulate ==
    (ret.op = "aggregate.toSQL" /\ ~ret.threw) =>
        IF HasStage(ab.pipeline, "$match")
        THEN /\ HasWord(ret.sql, "WHERE")
             /\ Sql(WhereOf(ret.sql)) = Join(KidTexts(MatchFilters(ab.pipeline)), AND)
             /\ ret.params = Flatten(KidParams(MatchFilters(ab.pipeline)))
        ELSE ~HasWord(ret.sql, "WHERE") /\ ret.params = <<>>

C23_Witness ==
    /\ ret.op = "aggregate.toSQL" /\ ~ret.threw
    /\ ab.pipeline = <<Stage("$match", F_gt), Stage("$group", G_sum), Stage("$match", F_a)>>
    /\ ret.params = <<Num(0), Num(1)>>

\* the text behind GROUP BY, up to the next clause; empty without GROUP BY
GroupByOf(sql) ==
    IF ~HasWord(sql, "GROUP BY") THEN <<>>
    ELSE LET from == CHOOSE k \in 1..Len(sql) : sql[k] = W("GROUP BY")
             stops == {k \in (from + 1)..Len(sql) :
                          sql[k].s \in {"HAVING", "ORDER BY", "LIMIT"}}
         IN SubSeq(sql, from + 1,
                   IF stops = {} THEN Len(sql)
                   ELSE (CHOOSE k \in stops : \A j \in stops : k <= j) - 1)
\* the fields a composite _id refers to, comma-joined
CompositeFields(id) == Join([i \in 1..Len(id.ents) |-> <<W(id.ents[i].val.name)>>], COMMA)
\* what the _id of a Group stage adds to SELECT and to GROUP BY
IdentitySelect(id) ==
    IF id.t = "ref" THEN <<<<W(id.name), W("AS"), W("_id")>>>>
    ELSE IF id.t = "obj" THEN <<CompositeFields(id)>>
    ELSE IF id.t = "string" THEN <<<<W("'"), W(id.s), W("'"), W("AS"), W("_id")>>>>
    ELSE <<>>
IdentityGroupBy(id) ==
    IF id.t = "ref" THEN <<W(id.name)>>
    ELSE IF id.t = "obj" THEN CompositeFields(id)
    ELSE <<>>
\* FUNC(operand) AS key of every key other than _id, in key order
OutputColumns(g) ==
    [k \in 1..Len(SelectSeq(g.ents, LAMBDA e : e.key # "_id")) |->
        LET e == SelectSeq(g.ents, LAMBDA x : x.key # "_id")[k] IN
        <<W(CASE e.val.ents[1].key = "$sum" -> "SUM"
              [] e.val.ents[1].key = "$avg" -> "AVG"
              [] e.val.ents[1].key = "$min" -> "MIN"
              [] OTHER -> "MAX"),
          W("(")>> \o
        (IF e.val.ents[1].val.t = "ref" THEN <<W(e.val.ents[1].val.name)>>
         ELSE <<N(e.val.ents[1].val.v)>>) \o
        <<W(")"), W("AS"), W(e.key)>>]

\* C24: a Group stage with _id "$f" adds `f AS _id` to SELECT and `f` to
\* GROUP BY; with a composite _id every referenced field, comma-joined and
\* unaliased, to both; with a literal _id only `'<lit>' AS _id` to SELECT;
\* with a null _id nothing, and there is no GROUP BY; every other key adds
\* `FUNC(operand) AS key` behind the identity columns, in key order.
C24_GroupIdentity ==
    (/\ ret.op = "aggregate.toSQL" /\ ~ret.threw
     /\ HasStage(ab.pipeline, "$group") /\ ~HasStage(ab.pipeline, "$project")) =>
        /\ SelectList(ret.sql) =
              Join(IdentitySelect(Get(LastArg(ab.pipeline, "$group"), "_id")) \o
                   OutputColumns(LastArg(ab.pipeline, "$group")), COMMA)
        /\ GroupByOf(ret.sql) = IdentityGroupBy(Get(LastArg(ab.pipeline, "$group"), "_id"))

UpdateOperators == {"$set", "$inc", "$mul", "$unset"}
\* the SET clause one field of one operator stands for
SetText(op, f) ==
    IF op = "$set" THEN <<W(f), W("="), W("?")>>
    ELSE IF op = "$inc" THEN <<W(f), W("="), W(f), W("+"), W("?")>>
    ELSE IF op = "$mul" THEN <<W(f), W("="), W(f), W("*"), W("?")>>
    ELSE <<W(f), W("="), W("NULL")>>
\* the SET clauses and their params of the operations ops, operator by
\* operator and field by field
SetTexts(ops) ==
    Flatten([i \in 1..Len(ops.ents) |->
        [j \in 1..Len(Entries(ops.ents[i].val)) |->
            SetText(ops.ents[i].key, ops.ents[i].val.ents[j].key)]])
SetParams(ops) ==
    Flatten([i \in 1..Len(ops.ents) |->
        IF ops.ents[i].key = "$unset" THEN <<>>
        ELSE [j \in 1..Len(Entries(ops.ents[i].val)) |-> ops.ents[i].val.ents[j].val]])
\* UPDATE users SET ... WHERE ..., SET params before the params of the filter
SingleExpected(b, ops, w) ==
    [sql |-> <<W("UPDATE"), W(b.tableName), W("SET")>> \o Join(SetTexts(ops), COMMA) \o
             <<W("WHERE")>> \o Sql(w.text) \o
             (IF b.singleUpdate THEN <<W("LIMIT"), N(1)>> ELSE <<>>),
     params |-> SetParams(ops) \o w.st.params]
\* update(u) on a new builder
Updated(u) == MongoUpdateBuilder_update(NewUpdateBuilder("users", "id"), u, NewSt(None)).b
PlainUpdates ==
    {u \in UpdateInputs :
        u.t = "obj" /\ \A i \in 1..Len(u.ents) : ~startsWithDollar(u.ents[i].key)}

\* C25: update(u) with an object u none of whose keys is an operator token
\* stores what update({$set: u}) stores; the single-object statement has
\* `f = ?` for $set, `f = f + ?` for $inc, `f = f * ?` for $mul, each with
\* one param, and `f = NULL` for $unset with none; the SET params come
\* before the params of the filter; an operator key outside these four, or
\* operations that give no SET clause, make toSQL() throw.
C25_SingleUpdateShape ==
    /\ \A u \in PlainUpdates :
          Updated(u).dataObj = Updated(Obj(<<KV("$set", u)>>)).dataObj
    /\ (ret.op = "update.toSQL" /\ ub.dataObj # None /\ Entries(ub.filter) # <<>>) =>
          /\ (\/ \E i \in 1..Len(ub.dataObj[1].ents) :
                    ub.dataObj[1].ents[i].key \notin UpdateOperators
              \/ SetTexts(ub.dataObj[1]) = <<>>) => (ret.threw /\ ret.sql = <<>>)
          /\ ~ret.threw =>
                [sql |-> Sql(ret.sql), params |-> ret.params] =
                    SingleExpected(ub, ub.dataObj[1],
                        parseMongoQuery(ub.filter, NewSt(None), "UPDATE"))

C25_Witness ==
    /\ ret.op = "update.toSQL" /\ ~ret.threw /\ ub.dataObj # None
    /\ HasKey(ub.dataObj[1], "$mul")
    /\ ub.filter = F_a
    /\ ret.params = <<Num(1), Num(0), Num(1), Num(1)>>

EndsWithLimitOne(sql) ==
    Len(sql) >= 2 /\ SubSeq(sql, Len(sql) - 1, Len(sql)) = <<W("LIMIT"), N(1)>>

\* C26: the single flag of an Update or Delete builder is unset on a new
\* builder, is set by single() and by nothing else, and is never unset; a
\* statement toSQL() returns ends with `LIMIT 1` exactly when the flag is
\* set, that is when single() was called before, in any order with
\* query()/update() and for the single-object and the bulk form.
C26_SingleAppendsLimitOne ==
    [][/\ ret.op = "none" => (~ub.singleUpdate /\ ~db.singleDelete)
       /\ ub'.singleUpdate # ub.singleUpdate =>
             (built = "update" /\ ret'.op = "single" /\ ub'.singleUpdate)
       /\ db'.singleDelete # db.singleDelete =>
             (built = "delete" /\ ret'.op = "single" /\ db'.singleDelete)
       /\ (built = "update" /\ ret'.op = "single") => ub'.singleUpdate
       /\ (built = "delete" /\ ret'.op = "single") => db'.singleDelete
       /\ (ret'.op = "update.toSQL" /\ ~ret'.threw) =>
             (EndsWithLimitOne(ret'.sql) <=> ub.singleUpdate)
       /\ (ret'.op = "delete.toSQL" /\ ~ret'.threw) =>
             (EndsWithLimitOne(ret'.sql) <=> db.singleDelete)]_vars

C26_Witness ==
    /\ ret.op = "update.toSQL" /\ ~ret.threw
    /\ ub.dataArray # None /\ ub.singleUpdate
    /\ Len(queries.update) = 2
    /\ EndsWithLimitOne(ret.sql)

\* the parent filters whose SubQuery is embedded: {id: S}, {id: {op: S}}
\* for $in and the scalar operators, alone or between x and y
EmbeddingFilters ==
    {F \in SubOperandFilters :
        Get(F, "id") = SubQ \/ Get(F, "id").ents[1].key \notin {"$nin", "$all"}}
\* the statement of the parent around the subquery text and params
ParentExpected(sib, text, params) ==
    [sql |-> <<W("SELECT"), W("*"), W("FROM"), W("users"), W("WHERE")>> \o
             (IF sib THEN <<W("x"), W("="), W("?"), W("AND")>> ELSE <<>>) \o
             <<W("id"), W("IN")>> \o Sql(text) \o
             (IF sib THEN <<W("AND"), W("y"), W("="), W("?")>> ELSE <<>>),
     params |-> (IF sib THEN <<Num(1)>> ELSE <<>>) \o params \o
                (IF sib THEN <<Num(0)>> ELSE <<>>)]
\* the text the cache holds after a toSQL() that found `cache`
CacheAfter(cache, compiled) ==
    IF cache = None THEN Sql(Paren(compiled.sql)) ELSE Sql(cache[1])

\* C27: SubQuery.toSQL() compiles the wrapped builder for its text only
\* while the cache is unset; once set, the cached text never changes and is
\* the text every later toSQL() hands over, also after the wrapped builder
\* was changed; the params handed over are those of a compilation of the
\* wrapped builder as it is at the call.
C27_SubQueryTextCachedParamsFresh ==
    [][/\ cachedSQL # None => cachedSQL' = cachedSQL
       /\ (ret'.op = "select.toSQL" /\ qb.filter \in EmbeddingFilters) =>
             /\ ~ret'.threw
             /\ cachedSQL' # None
             /\ Sql(cachedSQL'[1]) =
                   CacheAfter(cachedSQL, MongoQueryBuilder_toSQL(sb, NewSt(None)))
             /\ [sql |-> Sql(ret'.sql), params |-> ret'.params] =
                   ParentExpected(HasKey(qb.filter, "x"), cachedSQL'[1],
                       MongoQueryBuilder_toSQL(sb, NewSt(None)).params)]_vars

C27_Witness ==
    /\ ret.op = "select.toSQL" /\ ~ret.threw
    /\ qb.filter \in EmbeddingFilters
    /\ cachedSQL = Some(Paren(<<W("SELECT"), W("*"), W("FROM"), W("orders"), W("WHERE"),
                                W("1=1")>>))
    /\ queries.wrapped # <<>>
    /\ ret.params # <<>>

\* C28: a statement an Update or Delete builder returns never has the
\* WHERE clause `1=1`, whatever query()/update()/single() calls were made,
\* also for a non-empty filter that translates to `1=1`.
C28_NoMatchAllWrite ==
    (ret.op \in {"update.toSQL", "delete.toSQL"} /\ ~ret.threw) =>
        /\ HasWord(ret.sql, "WHERE")
        /\ Sql(WhereOf(ret.sql)) # TRUE_SQL

-----------------------------------------------------------------------------
(* Two builders and one filter object of the caller.  query() stores the   *)
(* object it is given, not a copy: `this.filter = queryObj`, and           *)
(* `{ $and: [this.filter] }` and `$and.push(queryObj)` hold references.    *)
(* Here `query` is the content of the caller's object F, SharedRef is the  *)
(* reference to it, and every other argument is a fresh literal.  Each     *)
(* builder is handed F at most once, so F never comes to contain itself.   *)

SharedRef == [t |-> "shared"]

\* the object a stored reference points at
Deref(v, F) == IF v = SharedRef THEN F ELSE v

\* the filter as the translator walks it: references followed
Resolve(filter, F) ==
    IF filter = SharedRef THEN F
    ELSE Obj([i \in 1..Len(Entries(filter)) |->
                IF filter.ents[i].key = "$and" /\ filter.ents[i].val.t = "arr"
                THEN KV("$and", Arr([j \in 1..Len(filter.ents[i].val.elems) |->
                                        Deref(filter.ents[i].val.elems[j], F)]))
                ELSE filter.ents[i]])

\* this.filter.$and is truthy
HasAnd(obj) ==
    \E i \in 1..Len(Entries(obj)) : obj.ents[i].key = "$and" /\ Truthy(obj.ents[i].val)

\* query(queryObj) on a builder whose this.filter may be the caller's F.
\* Returns [filter, F]: the builder's field and the content of F afterwards
QueryByReference(filter, F, queryObj) ==
    IF filter # SharedRef THEN [filter |-> MergeQuery(filter, queryObj), F |-> F]
    ELSE IF Entries(F) = <<>> THEN [filter |-> queryObj, F |-> F]
    ELSE IF HasAnd(F) THEN [filter |-> SharedRef, F |-> MergeQuery(F, queryObj)]
    ELSE [filter |-> Obj(<<KV("$and", Arr(<<SharedRef, queryObj>>))>>), F |-> F]

\* the caller's object, and what the caller passes to query()
SharedFilters == {F_a, F_empty, F_andEmpty, F_andFirst, F_andLast}
SharedArgs == {SharedRef, F_a, F_gt}

NotYetGiven(history) == \A i \in 1..Len(history) : history[i] # SharedRef
MayPass(history, queryObj) == queryObj = SharedRef => NotYetGiven(history)

Shared_Select_query(queryObj) ==
    LET r == QueryByReference(qb.filter, query, queryObj) IN
    /\ built = "shared"
    /\ Len(queries.select) < MaxQueryCalls
    /\ MayPass(queries.select, queryObj)
    /\ qb' = [qb EXCEPT !.filter = r.filter]
    /\ query' = r.F
    /\ queries' = [queries EXCEPT !.select = Append(@, queryObj)]
    /\ ret' = Chained("query")
    /\ UNCHANGED <<OperatorPlugins, sb, cachedSQL, ab, ub, db, ib, built>>

Shared_Delete_query(queryObj) ==
    LET r == QueryByReference(db.filter, query, queryObj) IN
    /\ built = "shared"
    /\ Len(queries.delete) < MaxQueryCalls
    /\ MayPass(queries.delete, queryObj)
    /\ db' = [db EXCEPT !.filter = r.filter]
    /\ query' = r.F
    /\ queries' = [queries EXCEPT !.delete = Append(@, queryObj)]
    /\ ret' = Chained("query")
    /\ UNCHANGED <<OperatorPlugins, sb, cachedSQL, qb, ab, ub, ib, built>>

Shared_Select_toSQL ==
    /\ built = "shared"
    /\ Return("select.toSQL",
              MongoQueryBuilder_toSQL([qb EXCEPT !.filter = Resolve(@, query)],
                                      NewSt(cachedSQL)))
    /\ UNCHANGED <<query, OperatorPlugins, sb, qb, ab, ub, db, ib, built, queries>>

Shared_Delete_toSQL ==
    /\ built = "shared"
    /\ Return("delete.toSQL",
              MongoDeleteBuilder_toSQL([db EXCEPT !.filter = Resolve(@, query)],
                                       NewSt(cachedSQL)))
    /\ UNCHANGED <<query, OperatorPlugins, sb, qb, ab, ub, db, ib, built, queries>>

\* a Select builder and a Delete builder handed the same object of the caller
InitShared == Fresh /\ built = "shared" /\ query \in SharedFilters
NextShared ==
    \/ \E queryObj \in SharedArgs : Shared_Select_query(queryObj)
    \/ \E queryObj \in SharedArgs : Shared_Delete_query(queryObj)
    \/ Shared_Select_toSQL
    \/ Shared_Delete_toSQL
SpecShared == InitShared /\ [][NextShared]_vars

\* what toSQL() would return now
Outcome(r) == [sql |-> r.sql, params |-> r.params, err |-> r.st.err]
SelectOutcome(b, F) ==
    Outcome(MongoQueryBuilder_toSQL([b EXCEPT !.filter = Resolve(@, F)], NewSt(None)))
DeleteOutcome(b, F) ==
    Outcome(MongoDeleteBuilder_toSQL([b EXCEPT !.filter = Resolve(@, F)], NewSt(None)))
WasGiven(history) == ~NotYetGiven(history)

\* C29: query() on one builder changes that builder's filter only: the
\* caller's object F handed to an earlier query() keeps its content, the
\* other builder's fields stay as they are, and the other builder, if it
\* was given F, compiles to the same statement before and after the call.
C29_BuildersIsolated ==
    [][ /\ (queries'.select # queries.select) =>
              /\ query' = query
              /\ db' = db
              /\ WasGiven(queries.delete) =>
                    DeleteOutcome(db', query') = DeleteOutcome(db, query)
        /\ (queries'.delete # queries.delete) =>
              /\ query' = query
              /\ qb' = qb
              /\ WasGiven(queries.select) =>
                    SelectOutcome(qb', query') = SelectOutcome(qb, query) ]_vars

\* the operator token and the operand of the drawn filter {a: {t: v}}
Token == query.ents[1].val.ents[1].key
Operand == query.ents[1].val.ents[1].val
IsPrefix(s, t) == Len(s) <= Len(t) /\ \A i \in 1..Len(s) : t[i] = s[i]
\* what a translation of the filter returns with the registry as it is
TranslationNow == Outcome(WhereText(parseMongoQuery(query, NewSt(None), "root")))

\* C30: the plugin registry only grows, each call keeping the earlier
\* entries in place; a translation of a token that has registrations
\* returns the clause of the earliest one; and registering a token that
\* is already registered leaves the result of the translation as it was.
C30_RegistryOnlyGrows ==
    [][ /\ IsPrefix(OperatorPlugins, OperatorPlugins')
        /\ (ret'.op = "translate" /\ FirstPluginIndex(Token) # 0) =>
              /\ ~ret'.threw
              /\ ret'.sql = <<W("a"), W(OperatorPlugins[FirstPluginIndex(Token)].handler),
                              Ph(Operand)>>
              /\ ret'.params = <<Operand>>
        /\ (ret'.op = "registerOperatorPlugin" /\ FirstPluginIndex(Token) # 0
              /\ OperatorPlugins'[Len(OperatorPlugins')].operator = Token) =>
              TranslationNow' = TranslationNow ]_vars

=============================================================================
